---- MODULE Spec2Model ----
(***************************************************************************)
(* Model of the inventory tracker's normalization and audit-trail core:    *)
(* the spreadsheet row parser (spreadsheetUtils.ts), the change detector   *)
(* and logger (logUtils.ts) and the App handlers that drive them           *)
(* (App.tsx, components/InventoryItem).                                    *)
(*                                                                         *)
(* JavaScript strings are sequences of one-character strings, so that      *)
(* toLowerCase, trim and parseFloat are computed character by character.   *)
(* JavaScript values are tagged records [t |-> tag, v |-> payload].        *)
(* Numbers are integers counting tenths (10 stands for 1.0); the sampled   *)
(* cell texts carry at most one fractional digit and no exponent.          *)
(***************************************************************************)
EXTENDS Integers, Sequences, FiniteSets, TLC

VARIABLES
  family,     \* which sample universe the row under test is drawn from
  row,        \* the row object handed to parseRow
  ppc,        \* position of the parse run: "build" | "parsed" | "exported" | "reparsed"
  resolved,   \* findFieldValue(row, FIELD_MAPPINGS[f]) for every field f
  parsed,     \* the value parseRow returned (or Throw), NoValue before
  exported,   \* the export row exportToSpreadsheet builds for parsed
  reparsed,   \* the value parseRow returned for the export row
  form,       \* the Add Item dialog or an item's edit form, as the user left it
  saved       \* the record the form handed over when it was saved, NoValue before

(***************************************************************************)
(* Strings                                                                 *)
(***************************************************************************)
UpperChars == <<"A","B","C","D","E","F","G","H","I","J","K","L","M",
                "N","O","P","Q","R","S","T","U","V","W","X","Y","Z">>

LowerChars == <<"a","b","c","d","e","f","g","h","i","j","k","l","m",
                "n","o","p","q","r","s","t","u","v","w","x","y","z">>

DigitChars == <<"0","1","2","3","4","5","6","7","8","9">>

\* the lower-case letter of every upper-case letter
LowerTable == [c \in {UpperChars[i] : i \in 1..26} |->
                 LowerChars[CHOOSE i \in 1..26 : UpperChars[i] = c]]

LowerChar(c) == IF c \in DOMAIN LowerTable THEN LowerTable[c] ELSE c

\* String.prototype.toLowerCase
toLowerCase(s) == [i \in 1..Len(s) |-> LowerChar(s[i])]

IsSpace(c) == c \in {" ", "\t"}

DigitTable == [c \in {DigitChars[d] : d \in 1..10} |->
                 (CHOOSE d \in 1..10 : DigitChars[d] = c) - 1]

IsDigit(c) == c \in DOMAIN DigitTable

DigitVal(c) == DigitTable[c]

\* first index >= i whose character does not satisfy IsSpace (Len+1 if none)
SkipSpaces(s, i) ==
  CHOOSE j \in i..(Len(s) + 1) :
    /\ (j = Len(s) + 1 \/ ~IsSpace(s[j]))
    /\ \A k \in i..(j - 1) : IsSpace(s[k])

\* String.prototype.trim
trim(s) ==
  LET first == SkipSpaces(s, 1)
      last  == IF first > Len(s) THEN 0
               ELSE CHOOSE j \in first..Len(s) :
                      /\ ~IsSpace(s[j])
                      /\ \A k \in (j + 1)..Len(s) : IsSpace(s[k])
  IN  IF first > Len(s) THEN <<>> ELSE SubSeq(s, first, last)

\* first index >= i whose character is not a digit (Len+1 if none)
DigitsEnd(s, i) ==
  CHOOSE j \in i..(Len(s) + 1) :
    /\ (j = Len(s) + 1 \/ ~IsDigit(s[j]))
    /\ \A k \in i..(j - 1) : IsDigit(s[k])

RECURSIVE DigitsValue(_, _, _)
\* the decimal value of the digits s[i..j-1]
DigitsValue(s, i, j) ==
  IF j <= i THEN 0 ELSE DigitsValue(s, i, j - 1) * 10 + DigitVal(s[j - 1])

RECURSIVE NatToStr(_)
NatToStr(n) ==
  IF n < 10 THEN <<DigitChars[n + 1]>>
  ELSE NatToStr(n \div 10) \o <<DigitChars[(n % 10) + 1]>>

(***************************************************************************)
(* JavaScript values                                                       *)
(***************************************************************************)
Str(s)  == [t |-> "str",  v |-> s]
Num(n)  == [t |-> "num",  v |-> n]          \* n counts tenths
Bool(b) == [t |-> "bool", v |-> b]
NaN       == [t |-> "nan",   v |-> 0]
Undefined == [t |-> "undef", v |-> 0]
Null      == [t |-> "null",  v |-> 0]
Throw     == [t |-> "throw", v |-> 0]       \* an exception propagating to the caller
NoValue   == [t |-> "none",  v |-> 0]       \* nothing computed yet

\* ToBoolean: the falsy values are undefined, null, "", 0, NaN and false
Truthy(x) ==
  CASE x.t = "str"  -> x.v # <<>>
    [] x.t = "num"  -> x.v # 0
    [] x.t = "bool" -> x.v
    [] OTHER        -> FALSE

\* a || b
Or(a, b) == IF Truthy(a) THEN a ELSE b

\* a !== b
StrictNotEqual(a, b) == a # b \/ a.t = "nan"

\* Number.prototype.toString for a number of tenths
NumToString(n) ==
  LET a    == IF n < 0 THEN 0 - n ELSE n
      body == NatToStr(a \div 10) \o
              (IF a % 10 = 0 THEN <<>> ELSE <<".", DigitChars[(a % 10) + 1]>>)
  IN  IF n < 0 THEN <<"-">> \o body ELSE body

\* ToString (ECMAScript), as parseFloat applies it to its argument
JSToString(x) ==
  CASE x.t = "str"   -> x.v
    [] x.t = "num"   -> NumToString(x.v)
    [] x.t = "nan"   -> <<"N","a","N">>
    [] x.t = "bool"  -> IF x.v THEN <<"t","r","u","e">> ELSE <<"f","a","l","s","e">>
    [] x.t = "null"  -> <<"n","u","l","l">>
    [] OTHER         -> <<"u","n","d","e","f","i","n","e","d">>

\* plausible slip: parseInt is used, which stops at the decimal point
parseFloat_noFraction(x) ==
  LET s      == JSToString(x)
      i0     == SkipSpaces(s, 1)
      signed == i0 <= Len(s) /\ s[i0] \in {"-", "+"}
      neg    == signed /\ s[i0] = "-"
      i1     == IF signed THEN i0 + 1 ELSE i0
      i2     == DigitsEnd(s, i1)
      tenths == DigitsValue(s, i1, i2) * 10
  IN  IF i2 = i1 THEN NaN
      ELSE Num(IF neg THEN 0 - tenths ELSE tenths)

\* parseFloat: leading white space is skipped, then the longest prefix that
\* is a decimal literal (sign, digits, optional fraction) is converted;
\* NaN when there is no such prefix
parseFloat(x) ==
  LET s      == JSToString(x)
      i0     == SkipSpaces(s, 1)
      signed == i0 <= Len(s) /\ s[i0] \in {"-", "+"}
      neg    == signed /\ s[i0] = "-"
      i1     == IF signed THEN i0 + 1 ELSE i0
      i2     == DigitsEnd(s, i1)
      hasDot == i2 <= Len(s) /\ s[i2] = "."
      i3     == IF hasDot THEN DigitsEnd(s, i2 + 1) ELSE i2
      nInt   == i2 - i1
      nFrac  == IF hasDot THEN i3 - (i2 + 1) ELSE 0
      tenths == DigitsValue(s, i1, i2) * 10 +
                (IF nFrac > 0 THEN DigitVal(s[i2 + 1]) ELSE 0)
  IN  IF nInt = 0 /\ nFrac = 0 THEN NaN
      ELSE Num(IF neg THEN 0 - tenths ELSE tenths)

(***************************************************************************)
(* validationUtils                                                         *)
(***************************************************************************)
\* plausible slip: the clamp at zero is forgotten
calculateQtyShort_noClamp(qtyAuthorized, qtyOnHand) ==
  Num(qtyAuthorized.v - qtyOnHand.v)

\* Math.max(0, qtyAuthorized - qtyOnHand)
calculateQtyShort(qtyAuthorized, qtyOnHand) ==
  LET d == qtyAuthorized.v - qtyOnHand.v
  IN  Num(IF d > 0 THEN d ELSE 0)

(***************************************************************************)
(* spreadsheetUtils: the alias table and the row parser                    *)
(***************************************************************************)
FIELD_MAPPINGS ==
  [
    nsn |-> <<
      <<"N", "S", "N">>,
      <<"S", "t", "o", "c", "k", " ", "N", "u", "m", "b", "e", "r">>,
      <<"N", "a", "t", "i", "o", "n", "a", "l", " ", "S", "t", "o", "c", "k", " ", "N", "u", "m", "b", "e", "r">>,
      <<"N", "S", "N", " ", "#">>,
      <<"I", "t", "e", "m", " ", "N", "S", "N">>
    >>,
    lin |-> <<
      <<"L", "I", "N">>,
      <<"L", "i", "n", "e", " ", "I", "t", "e", "m", " ", "N", "u", "m", "b", "e", "r">>,
      <<"L", "i", "n", "e", " ", "#">>,
      <<"L", "I", "N", " ", "C", "o", "d", "e">>,
      <<"I", "t", "e", "m", " ", "L", "I", "N">>,
      <<"L", "i", "n", "e", " ", "N", "u", "m", "b", "e", "r">>
    >>,
    name |-> <<
      <<"N", "o", "m", "e", "n", "c", "l", "a", "t", "u", "r", "e">>,
      <<"I", "t", "e", "m", " ", "D", "e", "s", "c", "r", "i", "p", "t", "i", "o", "n">>,
      <<"D", "e", "s", "c", "r", "i", "p", "t", "i", "o", "n">>,
      <<"I", "t", "e", "m", " ", "N", "a", "m", "e">>,
      <<"E", "n", "d", " ", "I", "t", "e", "m", " ", "N", "a", "m", "e">>,
      <<"N", "o", "m", "e", "n", "c", "l", "a", "t", "u", "r", "e", "/", "D", "e", "s", "c", "r", "i", "p", "t", "i", "o", "n">>,
      <<"E", "q", "u", "i", "p", "m", "e", "n", "t", " ", "D", "e", "s", "c", "r", "i", "p", "t", "i", "o", "n">>,
      <<"I", "t", "e", "m", " ", "d", "e", "s", "c">>
    >>,
    ui |-> <<
      <<"U", "I">>,
      <<"U", "n", "i", "t", " ", "o", "f", " ", "I", "s", "s", "u", "e">>,
      <<"I", "s", "s", "u", "e", " ", "U", "n", "i", "t">>,
      <<"U", "/", "I">>,
      <<"Q", "t", "y", " ", "U", "n", "i", "t">>,
      <<"D", "i", "s", "t", "r", "i", "b", "u", "t", "i", "o", "n", " ", "U", "n", "i", "t">>
    >>,
    qtyAuthorized |-> <<
      <<"Q", "t", "y", " ", "A", "u", "t", "h", "o", "r", "i", "z", "e", "d">>,
      <<"A", "u", "t", "h", "o", "r", "i", "z", "e", "d", " ", "Q", "t", "y">>,
      <<"A", "u", "t", "h", "o", "r", "i", "z", "e", "d", " ", "Q", "u", "a", "n", "t", "i", "t", "y">>,
      <<"A", "l", "l", "o", "w", "a", "n", "c", "e">>,
      <<"R", "e", "q", "u", "i", "r", "e", "d", " ", "Q", "u", "a", "n", "t", "i", "t", "y">>,
      <<"Q", "T", "Y", " ", "A", "U", "T", "H">>,
      <<"Q", "t", "y", " ", "R", "e", "q">>
    >>,
    qtyOnHand |-> <<
      <<"Q", "t", "y", " ", "O", "n", " ", "H", "a", "n", "d">>,
      <<"O", "n", " ", "H", "a", "n", "d">>,
      <<"O", "H", " ", "Q", "t", "y">>,
      <<"C", "u", "r", "r", "e", "n", "t", " ", "Q", "t", "y">>,
      <<"A", "c", "t", "u", "a", "l", " ", "C", "o", "u", "n", "t">>,
      <<"Q", "T", "Y", " ", "O", "H">>,
      <<"P", "r", "e", "s", "e", "n", "t", " ", "Q", "t", "y">>
    >>,
    qtyShort |-> <<
      <<"Q", "t", "y", " ", "S", "h", "o", "r", "t">>,
      <<"S", "h", "o", "r", "t", "a", "g", "e">>,
      <<"Q", "T", "Y", " ", "S", "H", "O", "R", "T">>,
      <<"D", "i", "f", "f", "e", "r", "e", "n", "c", "e">>,
      <<"Q", "t", "y", " ", "D", "e", "f", "i", "c", "i", "t">>,
      <<"M", "i", "s", "s", "i", "n", "g", " ", "Q", "t", "y">>,
      <<"S", "h", "o", "r", "t", "f", "a", "l", "l">>
    >>,
    serialNumber |-> <<
      <<"S", "e", "r", "i", "a", "l", " ", "N", "u", "m", "b", "e", "r">>,
      <<"S", "N">>,
      <<"S", "/", "N">>,
      <<"S", "e", "r", " ", "N", "o">>,
      <<"S", "e", "r", "i", "a", "l", " ", "N", "o", ".">>,
      <<"S", "e", "r", "i", "a", "l">>
    >>,
    location |-> <<
      <<"L", "o", "c", "a", "t", "i", "o", "n">>,
      <<"S", "u", "b", "-", "H", "a", "n", "d", " ", "R", "e", "c", "e", "i", "p", "t", " ", "H", "o", "l", "d", "e", "r">>,
      <<"S", "H", "R", " ", "H", "o", "l", "d", "e", "r">>,
      <<"C", "u", "s", "t", "o", "d", "i", "a", "n">>,
      <<"H", "o", "l", "d", "e", "r">>,
      <<"A", "s", "s", "i", "g", "n", "e", "d", " ", "T", "o">>,
      <<"R", "o", "o", "m">>,
      <<"B", "u", "i", "l", "d", "i", "n", "g">>,
      <<"R", "e", "s", "p", "o", "n", "s", "i", "b", "l", "e", " ", "P", "a", "r", "t", "y">>,
      <<"S", "t", "o", "r", "a", "g", "e", " ", "L", "o", "c", "a", "t", "i", "o", "n">>
    >>,
    conditionCode |-> <<
      <<"C", "o", "n", "d", "i", "t", "i", "o", "n", " ", "C", "o", "d", "e">>,
      <<"C", "o", "n", "d", " ", "C", "o", "d", "e">>,
      <<"C", "o", "n", "d">>,
      <<"S", "t", "a", "t", "u", "s">>,
      <<"S", "e", "r", "v", "i", "c", "e", "a", "b", "i", "l", "i", "t", "y">>,
      <<"C", "o", "n", "d", "i", "t", "i", "o", "n">>,
      <<"E", "q", "u", "i", "p", "m", "e", "n", "t", " ", "S", "t", "a", "t", "u", "s">>
    >>,
    lastVerified |-> <<
      <<"D", "a", "t", "e", " ", "A", "c", "q", "u", "i", "r", "e", "d">>,
      <<"D", "a", "t", "e", " ", "V", "e", "r", "i", "f", "i", "e", "d">>,
      <<"L", "a", "s", "t", " ", "V", "e", "r", "i", "f", "i", "e", "d">>,
      <<"I", "n", "v", "e", "n", "t", "o", "r", "y", " ", "D", "a", "t", "e">>,
      <<"A", "c", "q", "u", "i", "s", "i", "t", "i", "o", "n", " ", "D", "a", "t", "e">>,
      <<"D", "a", "t", "e", " ", "o", "f", " ", "I", "n", "v", "e", "n", "t", "o", "r", "y">>,
      <<"V", "e", "r", "i", "f", "i", "c", "a", "t", "i", "o", "n", " ", "D", "a", "t", "e">>,
      <<"L", "a", "s", "t", " ", "C", "h", "e", "c", "k", "e", "d">>,
      <<"D", "a", "t", "e", " ", "E", "n", "t", "e", "r", "e", "d">>
    >>,
    isFlagged |-> <<
      <<"F", "l", "a", "g", "g", "e", "d">>,
      <<"I", "s", " ", "F", "l", "a", "g", "g", "e", "d">>,
      <<"F", "l", "a", "g">>,
      <<"M", "a", "r", "k", "e", "d">>,
      <<"H", "i", "g", "h", "l", "i", "g", "h", "t">>,
      <<"A", "t", "t", "e", "n", "t", "i", "o", "n">>,
      <<"N", "e", "e", "d", "s", " ", "A", "t", "t", "e", "n", "t", "i", "o", "n">>,
      <<"I", "s", "s", "u", "e">>,
      <<"P", "r", "o", "b", "l", "e", "m">>,
      <<"C", "o", "n", "c", "e", "r", "n">>
    >>,
    notes |-> <<
      <<"N", "o", "t", "e", "s">>,
      <<"I", "t", "e", "m", " ", "N", "o", "t", "e", "s">>,
      <<"D", "e", "s", "c", "r", "i", "p", "t", "i", "o", "n">>,
      <<"I", "t", "e", "m", " ", "D", "e", "s", "c", "r", "i", "p", "t", "i", "o", "n">>,
      <<"E", "n", "d", " ", "I", "t", "e", "m", " ", "D", "e", "s", "c", "r", "i", "p", "t", "i", "o", "n">>
    >>
  ]

Fields == DOMAIN FIELD_MAPPINGS

\* a row that is a mapping: the columns in the object's own key order
MapRow(cols) == [t |-> "map", cols |-> cols]

\* Object.keys(row): the headers in key order; no keys for a primitive
ObjectKeys(r) ==
  IF r.t = "map" THEN [i \in 1..Len(r.cols) |-> r.cols[i].h] ELSE <<>>

\* row[key]
Get(r, key) ==
  IF r.t = "map" /\ \E i \in 1..Len(r.cols) : r.cols[i].h = key
  THEN r.cols[CHOOSE i \in 1..Len(r.cols) : r.cols[i].h = key].c
  ELSE Undefined

RECURSIVE rowKeysMap(_, _)
\* new Map(keys.map(key => [key.toLowerCase(), key])), entries 1..n inserted
\* in order: a later entry with the same lower-cased key replaces the earlier
rowKeysMap(keys, n) ==
  IF n = 0 THEN << >>
  ELSE LET m  == rowKeysMap(keys, n - 1)
           lk == toLowerCase(keys[n])
       IN  [x \in (DOMAIN m) \cup {lk} |-> IF x = lk THEN keys[n] ELSE m[x]]

RECURSIVE findFrom_caseSensitive(_, _, _, _)
\* plausible slip: the alias is looked up without lower-casing it
findFrom_caseSensitive(r, m, fieldNames, i) ==
  IF i > Len(fieldNames) THEN Undefined
  ELSE IF fieldNames[i] \in DOMAIN m THEN Get(r, m[fieldNames[i]])
       ELSE findFrom_caseSensitive(r, m, fieldNames, i + 1)

RECURSIVE findFrom(_, _, _, _)
\* the for loop over fieldNames, from index i on
findFrom(r, m, fieldNames, i) ==
  IF i > Len(fieldNames) THEN Undefined
  ELSE LET lowerName == toLowerCase(fieldNames[i])
       IN  IF lowerName \in DOMAIN m THEN Get(r, m[lowerName])
           ELSE findFrom(r, m, fieldNames, i + 1)

findFieldValue(r, fieldNames) ==
  IF r.t \in {"null", "undef"} THEN Throw    \* Object.keys(null) is a TypeError
  ELSE LET keys == ObjectKeys(r)
       IN  findFrom(r, rowKeysMap(keys, Len(keys)), fieldNames, 1)

AffirmativeWords ==
  { <<"y","e","s">>, <<"t","r","u","e">>, <<"y">>, <<"1">>,
    <<"f","l","a","g","g","e","d">>, <<"m","a","r","k">>,
    <<"h","i","g","h","l","i","g","h","t">> }

\* plausible slip: the trim() of the cell text is forgotten
parseFlagValue_noTrim(value) ==
  CASE value.t = "bool" -> value
    [] value.t = "str"  -> Bool(toLowerCase(value.v) \in AffirmativeWords)
    [] value.t = "num"  -> Bool(value.v = 10)
    [] OTHER            -> Bool(FALSE)

\* plausible slip: toLowerCase() is called without the typeof guards
parseFlagValue_noTypeGuard(value) ==
  CASE value.t = "bool" -> value
    [] value.t = "str"  -> Bool(trim(toLowerCase(value.v)) \in AffirmativeWords)
    [] OTHER            -> Throw

parseFlagValue(value) ==
  CASE value.t = "bool" -> value
    [] value.t = "str"  -> Bool(trim(toLowerCase(value.v)) \in AffirmativeWords)
    [] value.t = "num"  -> Bool(value.v = 10)
    [] OTHER            -> Bool(FALSE)

\* plausible slip: the shortage is always recomputed, the cell never trusted
deriveQtyShort_always(item) ==
  [item EXCEPT !.qtyShort = calculateQtyShort(item.qtyAuthorized, item.qtyOnHand)]

\* "Calculate qtyShort if not provided": if (!item.qtyShort) { ... }
deriveQtyShort(item) ==
  IF ~Truthy(item.qtyShort)
  THEN [item EXCEPT !.qtyShort = calculateQtyShort(item.qtyAuthorized, item.qtyOnHand)]
  ELSE item

\* the object literal of parseRow has no photos property: reading it gives
\* undefined
parseRow(r) ==
  LET fv(f) == findFieldValue(r, FIELD_MAPPINGS[f])
      flag  == IF fv("isFlagged") = Throw THEN Throw
               ELSE parseFlagValue(fv("isFlagged"))
  IN  IF flag = Throw THEN Throw
      ELSE deriveQtyShort(
           [ t             |-> "item",
             isFlagged     |-> flag,
             name          |-> Or(fv("name"), Str(<<>>)),
             lin           |-> Or(fv("lin"), Str(<<>>)),
             nsn           |-> Or(fv("nsn"), Str(<<>>)),
             qtyAuthorized |-> Or(parseFloat(fv("qtyAuthorized")), Num(0)),
             qtyOnHand     |-> Or(parseFloat(fv("qtyOnHand")), Num(0)),
             qtyShort      |-> Or(parseFloat(fv("qtyShort")), Num(0)),
             ui            |-> Or(fv("ui"), Str(<<>>)),
             notes         |-> Or(fv("notes"), Str(<<>>)),
             photos        |-> Undefined ])

(***************************************************************************)
(* The application: the record store and log store (Dexie tables), the     *)
(* App component's state and its asynchronous handlers.                    *)
(*                                                                         *)
(* A handler invocation is a task.  It runs synchronously up to its next   *)
(* await of a store request; the request waits in the FIFO queue of its    *)
(* object store, and the step that completes it also runs the handler's    *)
(* continuation up to the next await.  Requests on one object store        *)
(* complete in the order they were issued; requests on different object    *)
(* stores complete in any order.                                           *)
(***************************************************************************)
VARIABLES
  dbItems,     \* db.items: id -> stored record
  nextItemId,  \* the next auto-incremented key of db.items
  dbLogs,      \* db.logs: the entries in the order they were added
  items,       \* App's items state (useState)
  loading,     \* App's loading state
  mounted,     \* FALSE once a render has thrown and React unmounted the tree
  tasks,       \* every handler invocation so far, in invocation order
  qItems,      \* tasks with a pending request on db.items, oldest first
  qLogs,       \* tasks with a pending request on db.logs, oldest first
  qInstances,  \* tasks with a pending request on db.instances, oldest first
  faults       \* store requests the environment has rejected so far

VARIABLES
  dbInstances,     \* db.instances: id -> stored instance
  nextInstanceId,  \* the next auto-incremented key of db.instances
  itemInstances,   \* App state itemInstances: item id -> its instances
  now,             \* the last reading of the clock (new Date())
  logView          \* what the last completed getLogs call returned

rvars == <<family, row, ppc, resolved, parsed, exported, reparsed>>

fvars == <<form, saved>>

pvars == <<rvars, fvars>>

ivars == <<dbInstances, nextInstanceId, itemInstances>>

avars == <<dbItems, nextItemId, dbLogs, items, loading, mounted, tasks, qItems, qLogs, qInstances, faults,
           dbInstances, nextInstanceId, itemInstances, now, logView>>

vars == <<family, row, ppc, resolved, parsed, exported, reparsed, form, saved,
          dbItems, nextItemId, dbLogs, items, loading, mounted, tasks, qItems, qLogs, qInstances, faults,
          dbInstances, nextInstanceId, itemInstances, now, logView>>

MaxCalls == 3

MaxFaults == 1

\* sheets dropped in one run
MaxUploads == 1

\* the outcomes a store request can have: success, or a rejection while the
\* environment may still inject one
Outcomes == IF faults < MaxFaults THEN {TRUE, FALSE} ELSE {TRUE}

CountFault(ok) == faults' = IF ok THEN faults ELSE faults + 1

\* a photos array
List(s) == [t |-> "list", v |-> s]

UpperTable == [c \in {LowerChars[i] : i \in 1..26} |->
                 UpperChars[CHOOSE i \in 1..26 : LowerChars[i] = c]]

\* String.prototype.toUpperCase
toUpperCase(s) ==
  [i \in 1..Len(s) |-> IF s[i] \in DOMAIN UpperTable THEN UpperTable[s[i]] ELSE s[i]]

IsAlnum(c) == IsDigit(c) \/ c \in DOMAIN UpperTable \/ c \in DOMAIN LowerTable

(***************************************************************************)
(* validationUtils                                                         *)
(***************************************************************************)
\* /^\d{4}-\d{2}-\d{3}-\d{4}$/
validateNSN(nsn) ==
  /\ Len(nsn) = 16
  /\ \A i \in 1..16 : IF i \in {5, 8, 12} THEN nsn[i] = "-" ELSE IsDigit(nsn[i])

\* /^[A-Za-z0-9]{1,6}$/
validateLIN(lin) ==
  /\ Len(lin) \in 1..6
  /\ \A i \in 1..Len(lin) : IsAlnum(lin[i])

formatLIN(lin) == toUpperCase(lin)

(***************************************************************************)
(* logUtils                                                                *)
(***************************************************************************)
\* new Date(): the clock never runs backwards, and between two readings it
\* has advanced by a millisecond or not at all
Readings == IF now = 0 THEN {1} ELSE {now, now + 1}

\* the LogEntry built by logInventoryActivity; itemId is item.id (0: absent)
LogEntry(ts, action, itemId, changes) ==
  [timestamp |-> ts, action |-> action, itemId |-> itemId, changes |-> changes]

\* an empty changes object
NoChanges == [f \in {} |-> NoValue]

ComparedFields ==
  {"isFlagged", "notes", "name", "lin", "nsn", "qtyAuthorized", "qtyOnHand", "qtyShort"}

\* plausible slip: the flag comparison is left out of the change detector
itemChanges_noFlag(oldItem, newItem) ==
  IF oldItem.photos.t # "list" \/ newItem.photos.t # "list" THEN Throw
  ELSE LET changed == {f \in ComparedFields \ {"isFlagged"} :
                         StrictNotEqual(oldItem[f], newItem[f])}
           photoCh == IF Len(oldItem.photos.v) # Len(newItem.photos.v)
                      THEN {"photos"} ELSE {}
       IN  [f \in changed \cup photoCh |->
              IF f = "photos"
              THEN [from |-> Num(10 * Len(oldItem.photos.v)),
                    to   |-> Num(10 * Len(newItem.photos.v))]
              ELSE [from |-> oldItem[f], to |-> newItem[f]]]

\* plausible slip: the photos delta carries the two photo lists
itemChanges_photoContents(oldItem, newItem) ==
  IF oldItem.photos.t # "list" \/ newItem.photos.t # "list" THEN Throw
  ELSE LET changed == {f \in ComparedFields : StrictNotEqual(oldItem[f], newItem[f])}
           photoCh == IF Len(oldItem.photos.v) # Len(newItem.photos.v)
                      THEN {"photos"} ELSE {}
       IN  [f \in changed \cup photoCh |-> [from |-> oldItem[f], to |-> newItem[f]]]

\* the changes object logItemUpdate builds; reading .length of an undefined
\* photos is a TypeError
itemChanges(oldItem, newItem) ==
  IF oldItem.photos.t # "list" \/ newItem.photos.t # "list" THEN Throw
  ELSE LET changed == {f \in ComparedFields : StrictNotEqual(oldItem[f], newItem[f])}
           photoCh == IF Len(oldItem.photos.v) # Len(newItem.photos.v)
                      THEN {"photos"} ELSE {}
       IN  [f \in changed \cup photoCh |->
              IF f = "photos"
              THEN [from |-> Num(10 * Len(oldItem.photos.v)),
                    to   |-> Num(10 * Len(newItem.photos.v))]
              ELSE [from |-> oldItem[f], to |-> newItem[f]]]

\* the actions handleItemUpdate hands to logItemUpdate
DiffedActions == {"EDIT", "PHOTO_ADD", "PHOTO_DELETE", "FLAGGED", "UNFLAGGED", "VERIFIED"}

(***************************************************************************)
(* Tasks                                                                   *)
(***************************************************************************)
NoItem == [t |-> "none"]

\* a fresh task record; the last four fields record what the task did
NewTask(kind) ==
  [ kind     |-> kind,
    pc       |-> "done",
    call     |-> 0,          \* which handleItemUpdate call it is: 1 is the first
    action   |-> "",
    closure  |-> <<>>,       \* the items state the handler closed over
    closureInst |-> <<>>,    \* the itemInstances state the handler closed over
    pending  |-> <<>>,       \* keys whose db.instances request is still to come
    limit    |-> 0,          \* the limit handed to getLogs
    inst     |-> NoItem,     \* the instance handed to an instance handler
    origInst |-> NoItem,     \* originalInstance / instanceToDelete
    instMap  |-> <<>>,       \* loadItems' instancesMap so far
    orig     |-> NoItem,     \* originalItem
    item     |-> NoItem,     \* updatedItem / itemToAdd
    batch    |-> <<>>,       \* the rows of the uploaded sheet
    newItems |-> <<>>,       \* the parsed records handed to handleFileUpload
    entry    |-> NoItem,     \* the log entry whose add is pending
    added    |-> 0,          \* records this task added to db.items
    wrote    |-> FALSE,      \* this task's db.items write succeeded
    stored   |-> NoItem,     \* what db.items held for the record before that write
    logged   |-> <<>>,       \* positions in dbLogs of the entries it added
    failed   |-> "" ]        \* "store" | "log" | "type" | "parse": what failed

\* setItems(v) and setLoading(b): state updates on an unmounted tree are
\* dropped; a render of the item list (items present, not loading) throws at
\* item.photos.length when an item has no photos array, which unmounts the tree
Renders(its, ld) ==
  ld \/ \A k \in 1..Len(its) : its[k].photos.t = "list"

SetState(its, ld) ==
  IF mounted
  THEN /\ items' = its
       /\ loading' = ld
       /\ mounted' = Renders(its, ld)
  ELSE UNCHANGED <<items, loading, mounted>>

\* items.find(item => item.id === id)
Find(its, id) ==
  IF \E k \in 1..Len(its) : its[k].id = id
  THEN its[CHOOSE k \in 1..Len(its) : its[k].id = id /\ \A j \in 1..(k - 1) : its[j].id # id]
  ELSE NoItem

\* items.filter(item => item.id !== itemId)
RemoveById(its, itemId) ==
  LET Keep(it) == it.id # itemId IN SelectSeq(its, Keep)

\* plausible slip: the key is not removed
Without_keepsKey(f, k) == f

\* a function without the key k
Without(f, k) == [j \in (DOMAIN f) \ {k} |-> f[j]]

\* the ids of the records of seq that have one, in order
RECURSIVE InstanceIds(_)
InstanceIds(seq) ==
  IF seq = << >> THEN << >>
  ELSE (IF Head(seq).id # 0 THEN <<Head(seq).id>> ELSE << >>) \o InstanceIds(Tail(seq))

\* prev[parentId] || []
InstancesOfKey(insts, k) == IF k \in DOMAIN insts THEN insts[k] ELSE << >>

\* prev => ({...prev, [parentId]: v})
WithKey(f, k, v) == [j \in (DOMAIN f) \cup {k} |-> IF j = k THEN v ELSE f[j]]

\* setItemInstances(v)
SetInstances(v) == itemInstances' = IF mounted THEN v ELSE itemInstances

AppInit ==
  /\ dbItems = << >>
  /\ nextItemId = 1
  /\ dbLogs = << >>
  /\ items = << >>
  /\ loading = FALSE
  /\ mounted = TRUE
  /\ tasks = << >>
  /\ qItems = << >>
  /\ qLogs = << >>
  /\ qInstances = << >>
  /\ faults = 0
  /\ dbInstances = << >>
  /\ nextInstanceId = 1
  /\ itemInstances = << >>
  /\ now = 0
  /\ logView = << >>
  \* no row is being parsed by the harness below
  /\ family = "other"
  /\ row = Null
  /\ ppc = "idle"
  /\ resolved = NoValue
  /\ parsed = NoValue
  /\ exported = NoValue
  /\ reparsed = NoValue
  /\ form = [kind |-> "closed"]
  /\ saved = NoValue

(***************************************************************************)
(* App.handleItemUpdate and the item component's handlers that call it     *)
(***************************************************************************)
\* the number the next handleItemUpdate call gets
NextCall == 1 + Cardinality({i \in 1..Len(tasks) : tasks[i].call > 0})

\* plausible slip: the rejection of the store call is swallowed at the call
LeavesTry_swallowed(ok) == FALSE

\* await db.items.add / update / delete inside the handler's try block: a
\* rejected call (ok false) leaves the block for the catch, which only writes
\* to the console
LeavesTry(ok) == ~ok

\* plausible slip: the store serves the request issued last first
Issue_lastFirst(q, i) == <<i>> \o q

\* a request issued on a store waits behind the requests issued on it before
Issue(q, i) == Append(q, i)

\* the synchronous part of handleItemUpdate(updatedItem, action), called from
\* a render whose items state was its: up to the await of db.items.update
StartItemUpdate(updatedItem, action, its) ==
  LET originalItem == Find(its, updatedItem.id)
      tk == [NewTask("update") EXCEPT !.action = action, !.closure = its,
                                      !.call = NextCall,
                                      !.item = updatedItem, !.orig = originalItem]
  IN  IF updatedItem.id = 0 \/ originalItem = NoItem
      THEN /\ tasks' = Append(tasks, tk)
           /\ UNCHANGED qItems
      ELSE /\ tasks' = Append(tasks, [tk EXCEPT !.pc = "itemsUpdate"])
           /\ qItems' = Issue(qItems, Len(tasks) + 1)

\* the item list is on screen
ItemListShown == mounted /\ ~loading /\ Len(tasks) < MaxCalls

\* InventoryItem.handleFlagToggle
HandleFlagToggle ==
  /\ ItemListShown
  /\ \E k \in 1..Len(items) :
       LET item == items[k]
           updatedItem == [item EXCEPT !.isFlagged = Bool(~Truthy(item.isFlagged))]
       IN  StartItemUpdate(updatedItem,
                           IF Truthy(item.isFlagged) THEN "UNFLAGGED" ELSE "FLAGGED",
                           items)
  /\ UNCHANGED <<dbItems, nextItemId, dbLogs, items, loading, mounted, qLogs, qInstances, faults>>
  /\ UNCHANGED pvars
  /\ UNCHANGED <<ivars, now, logView>>

\* the notes the user can type into the notes editor
NoteTexts == {<<>>, <<"n">>}

\* InventoryItem.handleSaveNotes: editedNotes starts as item.notes || '' and
\* is what the user left in the editor
HandleSaveNotes ==
  /\ ItemListShown
  /\ \E k \in 1..Len(items) :
       \E editedNotes \in {Or(items[k].notes, Str(<<>>)).v} \cup NoteTexts :
         StartItemUpdate([items[k] EXCEPT !.notes = Str(editedNotes)], "Notes", items)
  /\ UNCHANGED <<dbItems, nextItemId, dbLogs, items, loading, mounted, qLogs, qInstances, faults>>
  /\ UNCHANGED pvars
  /\ UNCHANGED <<ivars, now, logView>>

\* InventoryItem.validateField: TRUE when the field has no error
validateField(field, value) ==
  CASE field = "nsn" -> validateNSN(value.v)
    [] field = "lin" -> validateLIN(value.v)
    [] field \in {"qtyAuthorized", "qtyOnHand"} -> value.v >= 0
    [] OTHER -> TRUE

\* InventoryItem.handleFieldChange: the new editedItem
handleFieldChange(prev, field, value) ==
  LET formattedValue == IF field = "lin" THEN Str(formatLIN(value.v)) ELSE value
      updated == [prev EXCEPT ![field] = formattedValue]
  IN  IF field \in {"qtyAuthorized", "qtyOnHand"}
      THEN [updated EXCEPT !.qtyShort =
              calculateQtyShort(updated.qtyAuthorized, updated.qtyOnHand)]
      ELSE updated

\* what the user can enter into the edit form: nothing or one field change
NoEdit == [field |-> "", value |-> NoValue]

FieldEdits ==
  { [field |-> "lin", value |-> Str(<<"b","2">>)],
    [field |-> "ui", value |-> Str(<<"B","X">>)],
    [field |-> "qtyAuthorized", value |-> Num(30)],
    [field |-> "qtyOnHand", value |-> Num(-10)] }

\* InventoryItem.handleSave after the user opened the edit form (editedItem is
\* the item) and made the edit e; nothing is saved while a field has an error
HandleSave ==
  /\ ItemListShown
  /\ \E k \in 1..Len(items) :
       \E e \in FieldEdits \cup {NoEdit} :
         /\ e # NoEdit => validateField(e.field, e.value)
         /\ LET item == items[k]
                editedItem == IF e = NoEdit THEN item
                              ELSE handleFieldChange(item, e.field, e.value)
            IN  StartItemUpdate(editedItem, "EDIT", items)
  /\ UNCHANGED <<dbItems, nextItemId, dbLogs, items, loading, mounted, qLogs, qInstances, faults>>
  /\ UNCHANGED pvars
  /\ UNCHANGED <<ivars, now, logView>>

\* InventoryItem.handleDeletePhoto(index)
HandleDeletePhoto ==
  /\ ItemListShown
  /\ \E k \in 1..Len(items) :
       \E index \in 1..Len(items[k].photos.v) :
         LET item == items[k]
             updatedPhotos == [j \in 1..(Len(item.photos.v) - 1) |->
                                 IF j < index THEN item.photos.v[j] ELSE item.photos.v[j + 1]]
         IN  StartItemUpdate([item EXCEPT !.photos = List(updatedPhotos)], "PHOTO_DELETE", items)
  /\ UNCHANGED <<dbItems, nextItemId, dbLogs, items, loading, mounted, qLogs, qInstances, faults>>
  /\ UNCHANGED pvars
  /\ UNCHANGED <<ivars, now, logView>>

\* InventoryItem.handlePhotoCapture: a file was chosen and the FileReader
\* started; its onload callback keeps the item and the onUpdate of this render
HandlePhotoCapture ==
  /\ ItemListShown
  /\ \E k \in 1..Len(items) :
       tasks' = Append(tasks, [NewTask("update") EXCEPT !.pc = "fileRead",
                                 !.action = "PHOTO_ADD", !.closure = items,
                                 !.orig = items[k]])
  /\ UNCHANGED <<dbItems, nextItemId, dbLogs, items, loading, mounted, qItems, qLogs, qInstances, faults>>
  /\ UNCHANGED pvars
  /\ UNCHANGED <<ivars, now, logView>>

\* reader.onload of handlePhotoCapture: onUpdate({...item, photos: [...item.photos, photoUrl]}, 'PHOTO_ADD')
PhotoLoaded ==
  \E i \in 1..Len(tasks) :
    /\ tasks[i].pc = "fileRead"
    /\ LET tk == tasks[i]
           item == tk.orig
           updatedItem == [item EXCEPT !.photos = List(Append(item.photos.v, "photo"))]
           originalItem == Find(tk.closure, updatedItem.id)
       IN  IF updatedItem.id = 0 \/ originalItem = NoItem
           THEN /\ tasks' = [tasks EXCEPT ![i] = [tk EXCEPT !.pc = "done", !.call = NextCall,
                                                    !.item = updatedItem]]
                /\ UNCHANGED qItems
           ELSE /\ tasks' = [tasks EXCEPT ![i] = [tk EXCEPT !.pc = "itemsUpdate",
                                                    !.call = NextCall,
                                                    !.item = updatedItem, !.orig = originalItem]]
                /\ qItems' = Issue(qItems, i)
    /\ UNCHANGED <<dbItems, nextItemId, dbLogs, items, loading, mounted, qLogs, qInstances, faults>>
    /\ UNCHANGED pvars
    /\ UNCHANGED <<ivars, now, logView>>

\* items.map(item => item.id === updatedItem.id ? updatedItem : item)
ReplaceById(its, updatedItem) ==
  [k \in 1..Len(its) |-> IF its[k].id = updatedItem.id THEN updatedItem ELSE its[k]]

\* db.items.get(id): the stored record, NoItem for a missing key
StoredRecord(db, id) == IF id \in DOMAIN db THEN db[id] ELSE NoItem

\* the properties db.items.update(id, {...}) writes
UpdatedFields ==
  {"isFlagged", "photos", "notes", "name", "lin", "nsn",
   "qtyAuthorized", "qtyOnHand", "qtyShort", "ui"}

\* Table.update: the stored record with the listed properties replaced; a
\* missing key changes nothing
StoreUpdate(db, id, updatedItem) ==
  IF id \in DOMAIN db
  THEN [db EXCEPT ![id] = [f \in DOMAIN db[id] |->
                             IF f \in UpdatedFields THEN updatedItem[f] ELSE db[id][f]]]
  ELSE db

\* db.items.update of handleItemUpdate completes, then the handler logs: the
\* diffed actions go through logItemUpdate, any other action string is logged
\* with an empty changes object
CompleteItemsUpdate ==
  /\ qItems # << >>
  /\ tasks[Head(qItems)].pc = "itemsUpdate"
  /\ LET i  == Head(qItems)
         tk == tasks[i]
     IN  \E ok \in Outcomes :
         /\ CountFault(ok)
         /\ IF LeavesTry(ok)
           THEN \* the update rejects: caught by handleItemUpdate's catch
                /\ tasks' = [tasks EXCEPT ![i] = [tk EXCEPT !.pc = "done", !.failed = "store"]]
                /\ UNCHANGED <<dbItems, qLogs, items, loading, mounted, now>>
           ELSE /\ dbItems' = IF ok THEN StoreUpdate(dbItems, tk.item.id, tk.item) ELSE dbItems
                /\ IF tk.action \in DiffedActions
                   THEN LET changes == itemChanges(tk.orig, tk.item)
                        IN  CASE changes = Throw ->
                                   /\ tasks' = [tasks EXCEPT ![i] =
                                        [tk EXCEPT !.pc = "done", !.wrote = ok,
                                           !.stored = StoredRecord(dbItems, tk.item.id), !.failed = "type"]]
                                   /\ UNCHANGED <<qLogs, items, loading, mounted, now>>
                              [] changes # Throw /\ DOMAIN changes = {} ->
                                   \* logItemUpdate returns -1 without logging
                                   /\ tasks' = [tasks EXCEPT ![i] =
                                        [tk EXCEPT !.pc = "done", !.wrote = ok,
                                           !.stored = StoredRecord(dbItems, tk.item.id)]]
                                   /\ SetState(ReplaceById(tk.closure, tk.item), loading)
                                   /\ UNCHANGED <<qLogs, now>>
                              [] OTHER ->
                                   /\ \E ts \in Readings :
                                        /\ now' = ts
                                        /\ tasks' = [tasks EXCEPT ![i] =
                                             [tk EXCEPT !.pc = "logsAdd", !.wrote = ok,
                                           !.stored = StoredRecord(dbItems, tk.item.id),
                                                !.entry = LogEntry(ts, tk.action, tk.item.id, changes)]]
                                   /\ qLogs' = Issue(qLogs, i)
                                   /\ UNCHANGED <<items, loading, mounted>>
                   ELSE /\ \E ts \in Readings :
                             /\ now' = ts
                             /\ tasks' = [tasks EXCEPT ![i] =
                                  [tk EXCEPT !.pc = "logsAdd", !.wrote = ok,
                                           !.stored = StoredRecord(dbItems, tk.item.id),
                                     !.entry = LogEntry(ts, tk.action, tk.item.id, NoChanges)]]
                        /\ qLogs' = Issue(qLogs, i)
                        /\ UNCHANGED <<items, loading, mounted>>
  /\ qItems' = Tail(qItems)
  /\ UNCHANGED <<nextItemId, dbLogs, qInstances>>
  /\ UNCHANGED pvars
  /\ UNCHANGED <<ivars, logView>>

(***************************************************************************)
(* App.handleAddItem                                                       *)
(***************************************************************************)
\* the initial newItem state
NewItemInitial ==
  [ t |-> "item", id |-> 0,
    name |-> Str(<<>>), lin |-> Str(<<>>), nsn |-> Str(<<>>),
    qtyAuthorized |-> Num(0), qtyOnHand |-> Num(0), qtyShort |-> Num(0),
    ui |-> Str(<<>>), notes |-> Str(<<>>),
    isFlagged |-> Bool(FALSE), photos |-> List(<<>>) ]

\* the onChange handlers of the Add Item dialog
SetText(prev, field, text) ==
  [prev EXCEPT ![field] = Str(IF field = "lin" THEN toUpperCase(text) ELSE text)]

SetQtyAuthorized(prev, qtyAuthorized) ==
  [prev EXCEPT !.qtyAuthorized = qtyAuthorized,
               !.qtyShort = calculateQtyShort(qtyAuthorized, Or(prev.qtyOnHand, Num(0)))]

\* plausible slip: the on-hand handler does not recompute the shortage
SetQtyOnHand_staleShort(prev, qtyOnHand) ==
  [prev EXCEPT !.qtyOnHand = qtyOnHand]

SetQtyOnHand(prev, qtyOnHand) ==
  [prev EXCEPT !.qtyOnHand = qtyOnHand,
               !.qtyShort = calculateQtyShort(Or(prev.qtyAuthorized, Num(0)), qtyOnHand)]

\* what the user can have typed into the Add Item dialog
FilledForm(name, notes, auth, onHand) ==
  SetQtyOnHand(
    SetQtyAuthorized(
      SetText(SetText(SetText(SetText(SetText(NewItemInitial,
        "name", name), "lin", <<"a","1">>), "nsn", <<"1">>), "ui", <<"E","A">>),
        "notes", notes),
      auth),
    onHand)

NewItemForms ==
  { NewItemInitial,
    FilledForm(<<"A">>, <<"n">>, Num(20), Num(10)) }

\* the synchronous part of handleAddItem; the Add Item button is disabled
\* while name, lin, nsn or ui is empty
HandleAddItem ==
  /\ mounted
  /\ Len(tasks) < MaxCalls
  /\ \E newItem \in NewItemForms :
       /\ Truthy(newItem.name) /\ Truthy(newItem.lin)
       /\ Truthy(newItem.nsn) /\ Truthy(newItem.ui)
       /\ tasks' = Append(tasks, [NewTask("add") EXCEPT !.pc = "itemsAdd",
                                    !.action = "ITEM_ADD", !.closure = items,
                                    !.item = newItem])
  /\ qItems' = Issue(qItems, Len(tasks) + 1)
  /\ UNCHANGED <<dbItems, nextItemId, dbLogs, items, loading, mounted, qLogs, qInstances, faults>>
  /\ UNCHANGED pvars
  /\ UNCHANGED <<ivars, now, logView>>

\* db.items.add of handleAddItem completes; then the ITEM_ADD entry is logged
\* (the dialog's instance list newItemInstances is left empty, so the loop
\* over it adds nothing and setItemInstances is not called)
CompleteItemsAdd ==
  /\ qItems # << >>
  /\ tasks[Head(qItems)].pc = "itemsAdd"
  /\ LET i  == Head(qItems)
         tk == tasks[i]
         itemWithId == [tk.item EXCEPT !.id = nextItemId]
     IN  \E ok \in Outcomes :
         /\ CountFault(ok)
         /\ IF ~LeavesTry(ok)
           THEN /\ dbItems' = IF ok THEN WithKey(dbItems, nextItemId, itemWithId) ELSE dbItems
                /\ nextItemId' = IF ok THEN nextItemId + 1 ELSE nextItemId
                /\ \E ts \in Readings :
                     /\ now' = ts
                     /\ tasks' = [tasks EXCEPT ![i] =
                          [tk EXCEPT !.pc = "logsAdd", !.item = itemWithId, !.added = IF ok THEN 1 ELSE 0,
                             !.wrote = ok,
                             !.entry = LogEntry(ts, "ITEM_ADD", nextItemId,
                                                [itemFields |-> itemWithId])]]
                /\ qLogs' = Issue(qLogs, i)
           ELSE /\ tasks' = [tasks EXCEPT ![i] = [tk EXCEPT !.pc = "done", !.failed = "store"]]
                /\ UNCHANGED <<dbItems, nextItemId, qLogs, now>>
  /\ qItems' = Tail(qItems)
  /\ UNCHANGED <<dbLogs, items, loading, mounted, qInstances>>
  /\ UNCHANGED pvars
  /\ UNCHANGED <<ivars, logView>>

(***************************************************************************)
(* FileUpload.onDrop, parseSpreadsheet and App.handleFileUpload            *)
(***************************************************************************)
\* the sheets the user can drop: the rows as sheet_to_json would hand them
SheetRowA == MapRow(<< [h |-> <<"N","S","N">>, c |-> Str(<<"1">>)] >>)

SheetRowB == MapRow(<< [h |-> <<"F","l","a","g">>, c |-> Str(<<"Y">>)] >>)

Batches ==
  { <<SheetRowA, SheetRowB>>, <<SheetRowA, Null, SheetRowB>> }

\* jsonData.map(row => parseRow(row)) for every sheet
ParsedBatch == [b \in Batches |-> [k \in 1..Len(b) |-> parseRow(b[k])]]

\* a sheet is dropped: parseSpreadsheet rejects when parseRow throws for any
\* row, which onDrop catches without calling onFileUpload; otherwise
\* handleFileUpload(newItems) runs up to the await of db.items.bulkAdd
HandleFileDrop ==
  /\ mounted
  /\ Len(tasks) < MaxCalls
  /\ Cardinality({i \in 1..Len(tasks) : tasks[i].kind = "upload"}) < MaxUploads
  /\ \E b \in Batches :
       LET newItems == ParsedBatch[b]
           tk == [NewTask("upload") EXCEPT !.action = "IMPORT", !.batch = b]
       IN  IF \E k \in 1..Len(b) : newItems[k] = Throw
           THEN /\ tasks' = Append(tasks, [tk EXCEPT !.failed = "parse"])
                /\ UNCHANGED <<qItems, items, loading, mounted>>
           ELSE /\ tasks' = Append(tasks, [tk EXCEPT !.pc = "bulkAdd", !.newItems = newItems])
                /\ qItems' = Issue(qItems, Len(tasks) + 1)
                /\ SetState(items, TRUE)
  /\ UNCHANGED <<dbItems, nextItemId, dbLogs, qLogs, qInstances, faults>>
  /\ UNCHANGED pvars
  /\ UNCHANGED <<ivars, now, logView>>

\* the records of recs at the positions in keep, in order
RECURSIVE SelectSeq2(_, _, _)
SelectSeq2(recs, keep, k) ==
  IF k > Len(recs) THEN << >>
  ELSE (IF k \in keep THEN <<recs[k]>> ELSE << >>) \o SelectSeq2(recs, keep, k + 1)

\* Table.bulkAdd outside a transaction: the records that can be added are
\* added under fresh keys and stay persisted; if any record failed the promise
\* rejects with a BulkError
CompleteBulkAdd ==
  /\ qItems # << >>
  /\ tasks[Head(qItems)].pc = "bulkAdd"
  /\ LET i  == Head(qItems)
         tk == tasks[i]
         n  == Len(tk.newItems)
     IN  \E fail \in SUBSET (1..n) :
           LET good == SelectSeq2(tk.newItems, (1..n) \ fail, 1)
               m    == Len(good)
           IN  /\ fail # {} => faults < MaxFaults
               /\ CountFault(fail = {})
               /\ dbItems' = [k \in (DOMAIN dbItems) \cup (nextItemId..(nextItemId + m - 1)) |->
                                IF k \in DOMAIN dbItems THEN dbItems[k]
                                ELSE [f \in (DOMAIN good[k - nextItemId + 1]) \cup {"id"} |->
                                        IF f = "id" THEN k ELSE good[k - nextItemId + 1][f]]]
               /\ nextItemId' = nextItemId + m
               /\ IF fail = {}
                  THEN \* logInventoryActivity('IMPORT', {}, {importedCount: newItems.length})
                       /\ \E ts \in Readings :
                            /\ now' = ts
                            /\ tasks' = [tasks EXCEPT ![i] =
                                 [tk EXCEPT !.pc = "logsAdd", !.added = m, !.wrote = TRUE,
                                    !.entry = LogEntry(ts, "IMPORT", 0,
                                                       [importedCount |-> Num(10 * n)])]]
                       /\ qLogs' = Issue(qLogs, i)
                       /\ UNCHANGED <<items, loading, mounted>>
                  ELSE \* catch, then finally setLoading(false)
                       /\ tasks' = [tasks EXCEPT ![i] =
                            [tk EXCEPT !.pc = "done", !.added = m, !.failed = "store"]]
                       /\ SetState(items, FALSE)
                       /\ UNCHANGED <<qLogs, now>>
  /\ qItems' = Tail(qItems)
  /\ UNCHANGED <<dbLogs, qInstances>>
  /\ UNCHANGED pvars
  /\ UNCHANGED <<ivars, logView>>

(***************************************************************************)
(* logInventoryActivity's db.logs.add and what each handler does next      *)
(***************************************************************************)
\* plausible slip: logInventoryActivity lets a rejected add reach its caller
LogFailureCaught_rethrown(ok) == ok

\* logInventoryActivity's try/catch around db.logs.add: whether the caller
\* goes on after the add settled with outcome ok
LogFailureCaught(ok) == TRUE

\* plausible slip: the log keeps only the latest entry of each record
LogsAdd_latestPerItem(logs, entry) ==
  Append(SelectSeq(logs, LAMBDA e : e.itemId # entry.itemId), entry)

\* db.logs.add(logEntry): the store's key is auto-incremented ('++id'), so
\* the entry becomes a new record after every stored one
LogsAdd(logs, entry) == Append(logs, entry)

\* db.logs.add completes.  A rejection is caught inside logInventoryActivity
\* (it returns -1), so the caller continues either way:
\*   handleItemUpdate  setItems(items.map(...)) over the items it closed over
\*   handleAddItem     setItems([...items, itemWithId])
\*   handleFileUpload  loadItems(): setLoading(true), await db.items.toArray()
\*   handleItemDelete  setItems(items.filter(...)), then setItemInstances of
\*                     the itemInstances it closed over without the item's key
CompleteLogsAdd ==
  /\ qLogs # << >>
  /\ tasks[Head(qLogs)].pc = "logsAdd"
  /\ LET i  == Head(qLogs)
         tk == tasks[i]
     IN  \E ok \in Outcomes :
           LET tk2 == IF ok THEN [tk EXCEPT !.logged = Append(tk.logged, Len(dbLogs) + 1)]
                      ELSE [tk EXCEPT !.failed = "log"]
           IN  /\ CountFault(ok)
               /\ dbLogs' = IF ok THEN LogsAdd(dbLogs, tk.entry) ELSE dbLogs
               /\ CASE ~LogFailureCaught(ok) ->
                         \* the handler's own catch block: nothing else is done
                         /\ tasks' = [tasks EXCEPT ![i] = [tk2 EXCEPT !.pc = "done"]]
                         /\ UNCHANGED <<items, loading, mounted, itemInstances, qItems>>
                    [] tk.kind = "update" ->
                         /\ tasks' = [tasks EXCEPT ![i] = [tk2 EXCEPT !.pc = "done"]]
                         /\ SetState(ReplaceById(tk.closure, tk.item), loading)
                         /\ UNCHANGED qItems
                         /\ UNCHANGED itemInstances
                    [] tk.kind = "add" ->
                         /\ tasks' = [tasks EXCEPT ![i] = [tk2 EXCEPT !.pc = "done"]]
                         /\ SetState(Append(tk.closure, tk.item), loading)
                         /\ UNCHANGED qItems
                         /\ UNCHANGED itemInstances
                    [] tk.kind = "delete" ->
                         /\ tasks' = [tasks EXCEPT ![i] = [tk2 EXCEPT !.pc = "done"]]
                         /\ SetState(RemoveById(tk.closure, tk.orig.id), loading)
                         /\ SetInstances(Without(tk.closureInst, tk.orig.id))
                         /\ UNCHANGED qItems
                    [] tk.kind = "instAdd" ->
                         \* prev => ({...prev, [parentId]: [...(prev[parentId] || []), newInstance]})
                         /\ tasks' = [tasks EXCEPT ![i] = [tk2 EXCEPT !.pc = "done"]]
                         /\ SetInstances(WithKey(itemInstances, tk.inst.parentItemId,
                                Append(InstancesOfKey(itemInstances, tk.inst.parentItemId), tk.inst)))
                         /\ UNCHANGED <<items, loading, mounted, qItems>>
                    [] tk.kind = "instUpdate" ->
                         \* prev => ({...prev, [parentId]: (prev[parentId] || []).map(...)})
                         /\ tasks' = [tasks EXCEPT ![i] = [tk2 EXCEPT !.pc = "done"]]
                         /\ SetInstances(WithKey(itemInstances, tk.inst.parentItemId,
                                ReplaceById(InstancesOfKey(itemInstances, tk.inst.parentItemId), tk.inst)))
                         /\ UNCHANGED <<items, loading, mounted, qItems>>
                    [] tk.kind = "instDelete" ->
                         \* prev => ({...prev, [parentId]: (prev[parentId] || []).filter(...)})
                         /\ tasks' = [tasks EXCEPT ![i] = [tk2 EXCEPT !.pc = "done"]]
                         /\ SetInstances(WithKey(itemInstances, tk.origInst.parentItemId,
                                RemoveById(InstancesOfKey(itemInstances, tk.origInst.parentItemId),
                                           tk.origInst.id)))
                         /\ UNCHANGED <<items, loading, mounted, qItems>>
                    [] tk.kind = "upload" ->
                         /\ tasks' = [tasks EXCEPT ![i] = [tk2 EXCEPT !.pc = "toArray"]]
                         /\ qItems' = Issue(qItems, i)
                         /\ SetState(items, TRUE)
                         /\ UNCHANGED itemInstances
  /\ qLogs' = Tail(qLogs)
  /\ UNCHANGED <<dbItems, nextItemId, qInstances>>
  /\ UNCHANGED pvars
  /\ UNCHANGED <<dbInstances, nextInstanceId, now, logView>>

\* db.items.toArray(): the stored records in key order
RECURSIVE ToArray(_, _)
ToArray(db, k) ==
  IF k >= nextItemId THEN << >>
  ELSE (IF k \in DOMAIN db THEN <<db[k]>> ELSE << >>) \o ToArray(db, k + 1)

\* loadItems: db.items.toArray() completes and setItems(allItems) runs; the
\* instances of the items are then read from db.instances (one request per
\* item that has an id).  A rejection is caught inside loadItems.
CompleteToArray ==
  /\ qItems # << >>
  /\ tasks[Head(qItems)].pc = "toArray"
  /\ LET i  == Head(qItems)
         tk == tasks[i]
         allItems == ToArray(dbItems, 1)
     IN  \E ok \in Outcomes :
         /\ CountFault(ok)
         /\ CASE ok /\ allItems # << >> ->
                  /\ tasks' = [tasks EXCEPT ![i] =
                       [tk EXCEPT !.pc = "instToArray", !.pending = InstanceIds(allItems),
                                  !.instMap = << >>]]
                  /\ qInstances' = Issue(qInstances, i)
                  /\ SetState(allItems, loading)
                  /\ UNCHANGED itemInstances
             [] ok /\ allItems = << >> ->
                  /\ tasks' = [tasks EXCEPT ![i] = [tk EXCEPT !.pc = "done"]]
                  /\ SetState(allItems, FALSE)
                  /\ SetInstances(<< >>)
                  /\ UNCHANGED qInstances
             [] OTHER ->
                  /\ tasks' = [tasks EXCEPT ![i] = [tk EXCEPT !.pc = "done"]]
                  /\ SetState(items, FALSE)
                  /\ UNCHANGED <<qInstances, itemInstances>>
  /\ qItems' = Tail(qItems)
  /\ UNCHANGED <<dbItems, nextItemId, dbLogs, qLogs>>
  /\ UNCHANGED pvars
  /\ UNCHANGED <<dbInstances, nextInstanceId, now, logView>>

\* db.instances.where('parentItemId').equals(itemId).toArray(): in key order
RECURSIVE InstancesWhere(_, _)
InstancesWhere(itemId, k) ==
  IF k >= nextInstanceId THEN << >>
  ELSE (IF k \in DOMAIN dbInstances /\ dbInstances[k].parentItemId = itemId
        THEN <<dbInstances[k]>> ELSE << >>) \o InstancesWhere(itemId, k + 1)

\* loadItems: the read of one item's instances completes; after the last one
\* setItemInstances(instancesMap) and setLoading(false) run.  A rejection is
\* caught inside loadItems, which then only does setLoading(false).
CompleteInstancesToArray ==
  /\ qInstances # << >>
  /\ tasks[Head(qInstances)].pc = "instToArray"
  /\ LET i  == Head(qInstances)
         tk == tasks[i]
         itemId == Head(tk.pending)
         rest == Tail(tk.pending)
         instancesMap == WithKey(tk.instMap, itemId, InstancesWhere(itemId, 1))
     IN  \E ok \in Outcomes :
         /\ CountFault(ok)
         /\ CASE ~ok ->
                  /\ tasks' = [tasks EXCEPT ![i] = [tk EXCEPT !.pc = "done", !.failed = "store"]]
                  /\ SetState(items, FALSE)
                  /\ qInstances' = Tail(qInstances)
                  /\ UNCHANGED itemInstances
             [] ok /\ rest = << >> ->
                  /\ tasks' = [tasks EXCEPT ![i] =
                       [tk EXCEPT !.pc = "done", !.pending = rest, !.instMap = instancesMap]]
                  /\ SetState(items, FALSE)
                  /\ SetInstances(instancesMap)
                  /\ qInstances' = Tail(qInstances)
             [] OTHER ->
                  /\ tasks' = [tasks EXCEPT ![i] =
                       [tk EXCEPT !.pending = rest, !.instMap = instancesMap]]
                  /\ qInstances' = Issue(Tail(qInstances), i)
                  /\ UNCHANGED <<items, loading, mounted, itemInstances>>
  /\ UNCHANGED <<dbItems, nextItemId, dbLogs, qItems, qLogs>>
  /\ UNCHANGED pvars
  /\ UNCHANGED <<dbInstances, nextInstanceId, now, logView>>

(***************************************************************************)
(* App.handleItemDelete                                                    *)
(***************************************************************************)
\* the Delete button of an item's delete dialog: handleItemDelete(item.id) up
\* to its first await, the delete of the first instance or of the item itself
HandleItemDelete ==
  /\ ItemListShown
  /\ \E k \in 1..Len(items) :
       LET itemId == items[k].id
           itemToDelete == Find(items, itemId)
           ids == IF itemId \in DOMAIN itemInstances
                  THEN InstanceIds(itemInstances[itemId]) ELSE << >>
           tk == [NewTask("delete") EXCEPT !.action = "DELETE", !.closure = items,
                                           !.closureInst = itemInstances,
                                           !.orig = itemToDelete, !.pending = ids]
       IN  /\ itemId # 0
           /\ IF ids = << >>
              THEN /\ tasks' = Append(tasks, [tk EXCEPT !.pc = "itemsDelete"])
                   /\ qItems' = Issue(qItems, Len(tasks) + 1)
                   /\ UNCHANGED qInstances
              ELSE /\ tasks' = Append(tasks, [tk EXCEPT !.pc = "instDelete"])
                   /\ qInstances' = Issue(qInstances, Len(tasks) + 1)
                   /\ UNCHANGED qItems
  /\ UNCHANGED <<dbItems, nextItemId, dbLogs, items, loading, mounted, qLogs, faults>>
  /\ UNCHANGED pvars
  /\ UNCHANGED <<ivars, now, logView>>

\* handleItemDelete: db.instances.delete(instance.id) of the loop completes;
\* the next instance is deleted, or after the last one the item itself
CompleteInstanceDelete ==
  /\ qInstances # << >>
  /\ tasks[Head(qInstances)].pc = "instDelete"
  /\ LET i  == Head(qInstances)
         tk == tasks[i]
         rest == Tail(tk.pending)
     IN  \E ok \in Outcomes :
         /\ CountFault(ok)
         /\ IF ~ok
           THEN /\ tasks' = [tasks EXCEPT ![i] = [tk EXCEPT !.pc = "done", !.failed = "store"]]
                /\ qInstances' = Tail(qInstances)
                /\ UNCHANGED <<dbInstances, qItems>>
           ELSE /\ dbInstances' = Without(dbInstances, Head(tk.pending))
                /\ IF rest = << >>
                   THEN /\ tasks' = [tasks EXCEPT ![i] =
                             [tk EXCEPT !.pc = "itemsDelete", !.pending = rest]]
                        /\ qItems' = Issue(qItems, i)
                        /\ qInstances' = Tail(qInstances)
                   ELSE /\ tasks' = [tasks EXCEPT ![i] = [tk EXCEPT !.pending = rest]]
                        /\ qInstances' = Issue(Tail(qInstances), i)
                        /\ UNCHANGED qItems
  /\ UNCHANGED <<dbItems, nextItemId, dbLogs, items, loading, mounted, qLogs>>
  /\ UNCHANGED pvars
  /\ UNCHANGED <<nextInstanceId, itemInstances, now, logView>>

\* handleItemDelete: db.items.delete(itemId) completes (deleting a missing key
\* succeeds); then the DELETE entry is logged
CompleteItemsDelete ==
  /\ qItems # << >>
  /\ tasks[Head(qItems)].pc = "itemsDelete"
  /\ LET i  == Head(qItems)
         tk == tasks[i]
         itemToDelete == tk.orig
     IN  \E ok \in Outcomes :
         /\ CountFault(ok)
         /\ IF ~LeavesTry(ok)
           THEN /\ dbItems' = IF ok THEN Without(dbItems, itemToDelete.id) ELSE dbItems
                /\ \E ts \in Readings :
                     /\ now' = ts
                     /\ tasks' = [tasks EXCEPT ![i] =
                          [tk EXCEPT !.pc = "logsAdd", !.wrote = ok,
                             !.entry = LogEntry(ts, "DELETE", itemToDelete.id,
                               [deletedItemFields |->
                                  [f \in {"name", "lin", "nsn", "qtyAuthorized",
                                          "qtyOnHand", "qtyShort"} |-> itemToDelete[f]]])]]
                /\ qLogs' = Issue(qLogs, i)
           ELSE /\ tasks' = [tasks EXCEPT ![i] = [tk EXCEPT !.pc = "done", !.failed = "store"]]
                /\ UNCHANGED <<dbItems, qLogs, now>>
  /\ qItems' = Tail(qItems)
  /\ UNCHANGED <<nextItemId, dbLogs, items, loading, mounted, qInstances>>
  /\ UNCHANGED pvars
  /\ UNCHANGED <<ivars, logView>>

(***************************************************************************)
(* Instances: the item component's instance handlers and App's             *)
(* handleInstanceAdd, handleInstanceUpdate, handleInstanceDelete           *)
(***************************************************************************)
\* /^[A-Z0-9\-/\.]{5,20}$/
validateSerialNumber(serial) ==
  /\ Len(serial) \in 5..20
  /\ \A i \in 1..Len(serial) :
       \/ IsDigit(serial[i])
       \/ serial[i] \in DOMAIN LowerTable
       \/ serial[i] \in {"-", "/", "."}

formatSerialNumber(serial) == toUpperCase(serial)

\* the newInstance state of the item component, and the one the user fills in
NewInstanceInitial(item) ==
  [ t |-> "instance", id |-> 0, parentItemId |-> item.id,
    serialNumber |-> Str(<<>>), location |-> Str(<<>>), conditionCode |-> Str(<<>>),
    lastVerified |-> Undefined ]

SerialTyped == <<"A", "B", "1", "2", "3">>

FilledInstance(item) ==
  [NewInstanceInitial(item) EXCEPT !.serialNumber = Str(formatSerialNumber(SerialTyped)),
                                   !.conditionCode = Str(<<"A">>)]

\* the instances the item component shows for an item
InstancesOf(insts, itemId) ==
  IF itemId # 0 /\ itemId \in DOMAIN insts THEN insts[itemId] ELSE << >>

\* itemInstances[parentId]?.find(instance => instance.id === id)
FindInstance(insts, parentId, id) ==
  IF parentId \in DOMAIN insts THEN Find(insts[parentId], id) ELSE NoItem

\* InventoryItem.handleAddInstance, then App.handleInstanceAdd up to the
\* await of db.instances.add
HandleAddInstance ==
  /\ ItemListShown
  /\ \E k \in 1..Len(items) :
       LET instance == FilledInstance(items[k])
       IN  /\ validateSerialNumber(SerialTyped)
           /\ Truthy(instance.serialNumber) /\ Truthy(instance.conditionCode)
           /\ tasks' = Append(tasks, [NewTask("instAdd") EXCEPT !.pc = "instAdd",
                                        !.action = "INSTANCE_ADD", !.inst = instance])
  /\ qInstances' = Issue(qInstances, Len(tasks) + 1)
  /\ UNCHANGED <<dbItems, nextItemId, dbLogs, items, loading, mounted, qItems, qLogs, faults>>
  /\ UNCHANGED pvars
  /\ UNCHANGED <<ivars, now, logView>>

\* db.instances.add of handleInstanceAdd completes; then INSTANCE_ADD is logged
CompleteInstanceAdd ==
  /\ qInstances # << >>
  /\ tasks[Head(qInstances)].pc = "instAdd"
  /\ LET i  == Head(qInstances)
         tk == tasks[i]
         id == nextInstanceId
     IN  \E ok \in Outcomes :
         /\ CountFault(ok)
         /\ IF ok
           THEN /\ dbInstances' = WithKey(dbInstances, id, [tk.inst EXCEPT !.id = id])
                /\ nextInstanceId' = id + 1
                /\ \E ts \in Readings :
                     /\ now' = ts
                     /\ tasks' = [tasks EXCEPT ![i] =
                          [tk EXCEPT !.pc = "logsAdd", !.wrote = TRUE,
                             !.inst = [tk.inst EXCEPT !.id = id],
                             !.entry = LogEntry(ts, "INSTANCE_ADD", 0,
                               [instanceId |-> id, parentItemId |-> tk.inst.parentItemId,
                                fields |-> tk.inst])]]
                /\ qLogs' = Issue(qLogs, i)
           ELSE /\ tasks' = [tasks EXCEPT ![i] = [tk EXCEPT !.pc = "done", !.failed = "store"]]
                /\ UNCHANGED <<dbInstances, nextInstanceId, qLogs, now>>
  /\ qInstances' = Tail(qInstances)
  /\ UNCHANGED <<dbItems, nextItemId, dbLogs, items, loading, mounted, qItems>>
  /\ UNCHANGED pvars
  /\ UNCHANGED <<itemInstances, logView>>

\* the synchronous part of handleInstanceUpdate(updatedInstance, actionType)
StartInstanceUpdate(updatedInstance, actionType) ==
  LET originalInstance ==
        FindInstance(itemInstances, updatedInstance.parentItemId, updatedInstance.id)
      tk == [NewTask("instUpdate") EXCEPT !.action = actionType,
                                          !.inst = updatedInstance,
                                          !.origInst = originalInstance]
  IN  IF updatedInstance.id = 0 \/ originalInstance = NoItem
      THEN /\ tasks' = Append(tasks, tk)
           /\ UNCHANGED qInstances
      ELSE /\ tasks' = Append(tasks, [tk EXCEPT !.pc = "instUpdate"])
           /\ qInstances' = Issue(qInstances, Len(tasks) + 1)

\* InventoryItem.handleVerifyInstance: lastVerified becomes new Date()
HandleVerifyInstance ==
  /\ ItemListShown
  /\ \E k \in 1..Len(items) :
       LET shown == InstancesOf(itemInstances, items[k].id)
       IN  \E n \in 1..Len(shown) : \E ts \in Readings :
             /\ now' = ts
             /\ StartInstanceUpdate([shown[n] EXCEPT !.lastVerified = Num(ts)], "VERIFIED")
  /\ UNCHANGED <<dbItems, nextItemId, dbLogs, items, loading, mounted, qItems, qLogs, faults>>
  /\ UNCHANGED pvars
  /\ UNCHANGED <<ivars, logView>>

\* InventoryItem.handleSaveInstance after the user opened the edit dialog of
\* an instance and typed a location
HandleSaveInstance ==
  /\ ItemListShown
  /\ \E k \in 1..Len(items) :
       LET shown == InstancesOf(itemInstances, items[k].id)
       IN  \E n \in 1..Len(shown) :
             StartInstanceUpdate([shown[n] EXCEPT !.location = Str(<<"R">>)], "INSTANCE_EDIT")
  /\ UNCHANGED <<dbItems, nextItemId, dbLogs, items, loading, mounted, qItems, qLogs, faults>>
  /\ UNCHANGED pvars
  /\ UNCHANGED <<ivars, now, logView>>

\* db.instances.update of handleInstanceUpdate completes (a missing key
\* changes nothing); then the action is logged
CompleteInstanceUpdate ==
  /\ qInstances # << >>
  /\ tasks[Head(qInstances)].pc = "instUpdate"
  /\ LET i  == Head(qInstances)
         tk == tasks[i]
     IN  \E ok \in Outcomes :
         /\ CountFault(ok)
         /\ IF ok
           THEN /\ dbInstances' = IF tk.inst.id \in DOMAIN dbInstances
                                  THEN [dbInstances EXCEPT ![tk.inst.id] = tk.inst]
                                  ELSE dbInstances
                /\ \E ts \in Readings :
                     /\ now' = ts
                     /\ tasks' = [tasks EXCEPT ![i] =
                          [tk EXCEPT !.pc = "logsAdd", !.wrote = TRUE,
                             !.entry = LogEntry(ts, tk.action, 0,
                               [instanceId |-> tk.inst.id,
                                parentItemId |-> tk.inst.parentItemId,
                                changes |-> [before |-> tk.origInst, after |-> tk.inst]])]]
                /\ qLogs' = Issue(qLogs, i)
           ELSE /\ tasks' = [tasks EXCEPT ![i] = [tk EXCEPT !.pc = "done", !.failed = "store"]]
                /\ UNCHANGED <<dbInstances, qLogs, now>>
  /\ qInstances' = Tail(qInstances)
  /\ UNCHANGED <<dbItems, nextItemId, dbLogs, items, loading, mounted, qItems>>
  /\ UNCHANGED pvars
  /\ UNCHANGED <<nextInstanceId, itemInstances, logView>>

\* InventoryItem.handleDeleteInstance, then App.handleInstanceDelete up to
\* the await of db.instances.delete: the instance is looked up in the
\* itemInstances of this render
HandleDeleteInstance ==
  /\ ItemListShown
  /\ \E k \in 1..Len(items) :
       LET shown == InstancesOf(itemInstances, items[k].id)
       IN  \E n \in 1..Len(shown) :
             LET instanceId == shown[n].id
                 holders == {j \in DOMAIN itemInstances :
                               Find(itemInstances[j], instanceId) # NoItem}
                 parentId == CHOOSE j \in holders : \A h \in holders : j <= h
             IN  /\ instanceId # 0
                 /\ tasks' = Append(tasks, [NewTask("instDelete") EXCEPT
                                   !.pc = "instRemove", !.action = "INSTANCE_DELETE",
                                   !.origInst = Find(itemInstances[parentId], instanceId)])
  /\ qInstances' = Issue(qInstances, Len(tasks) + 1)
  /\ UNCHANGED <<dbItems, nextItemId, dbLogs, items, loading, mounted, qItems, qLogs, faults>>
  /\ UNCHANGED pvars
  /\ UNCHANGED <<ivars, now, logView>>

\* db.instances.delete of handleInstanceDelete completes; then
\* INSTANCE_DELETE is logged
CompleteInstanceRemove ==
  /\ qInstances # << >>
  /\ tasks[Head(qInstances)].pc = "instRemove"
  /\ LET i  == Head(qInstances)
         tk == tasks[i]
     IN  \E ok \in Outcomes :
         /\ CountFault(ok)
         /\ IF ok
           THEN /\ dbInstances' = Without(dbInstances, tk.origInst.id)
                /\ \E ts \in Readings :
                     /\ now' = ts
                     /\ tasks' = [tasks EXCEPT ![i] =
                          [tk EXCEPT !.pc = "logsAdd", !.wrote = TRUE,
                             !.entry = LogEntry(ts, "INSTANCE_DELETE", 0,
                               [instanceId |-> tk.origInst.id,
                                parentItemId |-> tk.origInst.parentItemId,
                                deletedInstanceFields |-> tk.origInst])]]
                /\ qLogs' = Issue(qLogs, i)
           ELSE /\ tasks' = [tasks EXCEPT ![i] = [tk EXCEPT !.pc = "done", !.failed = "store"]]
                /\ UNCHANGED <<dbInstances, qLogs, now>>
  /\ qInstances' = Tail(qInstances)
  /\ UNCHANGED <<dbItems, nextItemId, dbLogs, items, loading, mounted, qItems>>
  /\ UNCHANGED pvars
  /\ UNCHANGED <<nextInstanceId, itemInstances, logView>>

(***************************************************************************)
(* getLogs and the LogViewer                                               *)
(***************************************************************************)
\* the limits getLogs is called with: the viewer asks for 100; the small
\* limit makes the cut happen on a log of two entries
Limits == {1, 100}

\* entry p of the log store precedes entry q in the timestamp index: keys
\* are ordered by timestamp and, for equal timestamps, by primary key
IndexBefore(p, q) ==
  \/ dbLogs[p].timestamp < dbLogs[q].timestamp
  \/ dbLogs[p].timestamp = dbLogs[q].timestamp /\ p < q

\* the primary keys in S in index order
RECURSIVE OrderBy(_)
OrderBy(S) ==
  IF S = {} THEN << >>
  ELSE LET first == CHOOSE p \in S : \A q \in S \ {p} : IndexBefore(p, q)
       IN  <<first>> \o OrderBy(S \ {first})

\* Collection.reverse()
Reverse(seq) == [k \in 1..Len(seq) |-> seq[Len(seq) + 1 - k]]

\* Collection.limit(n)
Limit(seq, n) == SubSeq(seq, 1, IF n < Len(seq) THEN n ELSE Len(seq))

\* the stored entry under primary key p, as toArray returns it
StoredLog(p) ==
  [id |-> p, timestamp |-> dbLogs[p].timestamp, action |-> dbLogs[p].action,
   itemId |-> dbLogs[p].itemId, changes |-> dbLogs[p].changes]

\* plausible slip: the index is read in ascending order
getLogs_oldestFirst(limit) ==
  LET keys == Limit(OrderBy(1..Len(dbLogs)), limit)
  IN  [k \in 1..Len(keys) |-> StoredLog(keys[k])]

\* db.logs.orderBy('timestamp').reverse().limit(limit).toArray()
getLogs(limit) ==
  LET keys == Limit(Reverse(OrderBy(1..Len(dbLogs))), limit)
  IN  [k \in 1..Len(keys) |-> StoredLog(keys[k])]

\* LogViewer.fetchLogs (on opening the history drawer and every 5 seconds
\* after): getLogs up to its await
HandleFetchLogs ==
  /\ mounted
  /\ Len(tasks) < MaxCalls
  /\ \E limit \in Limits :
       tasks' = Append(tasks, [NewTask("getLogs") EXCEPT !.pc = "getLogs", !.limit = limit])
  /\ qLogs' = Issue(qLogs, Len(tasks) + 1)
  /\ UNCHANGED <<dbItems, nextItemId, dbLogs, items, loading, mounted, qItems, qInstances, faults>>
  /\ UNCHANGED pvars
  /\ UNCHANGED <<ivars, now, logView>>

\* the read of db.logs completes; a rejection is caught inside getLogs, which
\* then returns []
CompleteGetLogs ==
  /\ qLogs # << >>
  /\ tasks[Head(qLogs)].pc = "getLogs"
  /\ LET i == Head(qLogs)
     IN  \E ok \in Outcomes :
           /\ CountFault(ok)
           /\ tasks' = [tasks EXCEPT ![i] =
                [tasks[i] EXCEPT !.pc = "done", !.failed = IF ok THEN "" ELSE "log"]]
           /\ logView' = IF ok THEN getLogs(tasks[i].limit) ELSE << >>
  /\ qLogs' = Tail(qLogs)
  /\ UNCHANGED <<dbItems, nextItemId, dbLogs, items, loading, mounted, qItems, qInstances>>
  /\ UNCHANGED pvars
  /\ UNCHANGED <<ivars, now>>

\* the runs in which the user works on items: edits, photos, notes, flags,
\* added and deleted items
NextApp ==
  \/ HandleFlagToggle
  \/ HandleSaveNotes
  \/ HandleSave
  \/ HandleDeletePhoto
  \/ HandlePhotoCapture
  \/ PhotoLoaded
  \/ HandleAddItem
  \/ HandleItemDelete
  \/ CompleteItemsDelete
  \/ CompleteItemsUpdate
  \/ CompleteItemsAdd
  \/ CompleteLogsAdd

SpecApp == AppInit /\ [][NextApp]_vars

\* the runs in which the user works on the instances of items: items are
\* added and deleted, instances added, verified, edited and deleted
NextInstances ==
  \/ HandleAddItem
  \/ HandleItemDelete
  \/ HandleAddInstance
  \/ HandleVerifyInstance
  \/ HandleSaveInstance
  \/ HandleDeleteInstance
  \/ CompleteItemsAdd
  \/ CompleteInstanceAdd
  \/ CompleteInstanceUpdate
  \/ CompleteInstanceRemove
  \/ CompleteInstanceDelete
  \/ CompleteItemsDelete
  \/ CompleteLogsAdd

SpecInstances == AppInit /\ [][NextInstances]_vars

\* the runs in which the user imports sheets into an inventory that may
\* already hold added items and their instances
NextImport ==
  \/ HandleFileDrop
  \/ HandleAddItem
  \/ HandleAddInstance
  \/ CompleteBulkAdd
  \/ CompleteItemsAdd
  \/ CompleteInstanceAdd
  \/ CompleteLogsAdd
  \/ CompleteToArray
  \/ CompleteInstancesToArray

SpecImport == AppInit /\ [][NextImport]_vars

\* the runs in which the history drawer reads the log while items are
\* added, flagged, unflagged and deleted
NextLogs ==
  \/ HandleFetchLogs
  \/ HandleAddItem
  \/ HandleFlagToggle
  \/ HandleItemDelete
  \/ CompleteGetLogs
  \/ CompleteItemsAdd
  \/ CompleteItemsUpdate
  \/ CompleteItemsDelete
  \/ CompleteLogsAdd

SpecLogs == AppInit /\ [][NextLogs]_vars

(***************************************************************************)
(* The quantity fields of the Add Item dialog and of the edit form.  A     *)
(* form is opened, its two quantity fields are changed some times, and it  *)
(* is saved.                                                               *)
(***************************************************************************)
MaxChanges == 3

\* what a quantity input (type="number") can hold: '' or a decimal
QtyTexts == {<<>>, <<"2">>, <<"2", ".", "5">>, <<"3">>, <<"-", "1">>}

\* Number(e.target.value) for the value of a number input: '' is 0
ToNumber(text) == IF text = <<>> THEN Num(0) ELSE parseFloat(Str(text))

\* stored records an edit form can be opened on
EditableItems ==
  { [FilledForm(<<"A">>, <<"n">>, Num(20), Num(10)) EXCEPT !.id = 1],
    [FilledForm(<<"A">>, <<>>, Num(10), Num(30)) EXCEPT !.id = 2] }

\* the Add Item dialog is opened: newItem is in its initial state
OpenAddDialog ==
  /\ form.kind = "closed"
  /\ form' = [kind |-> "add", rec |-> NewItemInitial, errors |-> {}, changes |-> 0]
  /\ UNCHANGED saved
  /\ UNCHANGED rvars
  /\ UNCHANGED avars

\* an item's edit form is opened: editedItem is the item (useEffect on item)
OpenEditForm ==
  /\ form.kind = "closed"
  /\ \E item \in EditableItems :
       form' = [kind |-> "edit", rec |-> item, errors |-> {}, changes |-> 0]
  /\ UNCHANGED saved
  /\ UNCHANGED rvars
  /\ UNCHANGED avars

\* setErrors(prev => ({...prev, [field]: error || ''})): the fields in error
SetError(errors, field, value) ==
  IF validateField(field, value) THEN errors \ {field} ELSE errors \cup {field}

\* onChange of a quantity field.  The dialog's handlers set newItem; the
\* edit form's handleFieldChange validates and sets editedItem
ChangeQuantity ==
  /\ form.kind \in {"add", "edit"}
  /\ form.changes < MaxChanges
  /\ \E field \in {"qtyAuthorized", "qtyOnHand"} :
       \E text \in QtyTexts :
         LET value == ToNumber(text)
         IN  form' =
               IF form.kind = "add"
               THEN [form EXCEPT !.changes = @ + 1,
                       !.rec = IF field = "qtyAuthorized"
                               THEN SetQtyAuthorized(form.rec, value)
                               ELSE SetQtyOnHand(form.rec, value)]
               ELSE [form EXCEPT !.changes = @ + 1,
                       !.errors = SetError(form.errors, field, value),
                       !.rec = handleFieldChange(form.rec, field, value)]
  /\ UNCHANGED saved
  /\ UNCHANGED rvars
  /\ UNCHANGED avars

\* the form is saved: handleAddItem takes newItem as itemToAdd; handleSave
\* returns while a field is in error and else hands {...item, ...editedItem}
\* to onUpdate
SaveForm ==
  /\ form.kind \in {"add", "edit"}
  /\ form.kind = "edit" => form.errors = {}
  /\ saved' = form.rec
  /\ form' = [kind |-> "closed"]
  /\ UNCHANGED rvars
  /\ UNCHANGED avars

InitForms ==
  /\ form = [kind |-> "closed"]
  /\ saved = NoValue
  /\ family = "other"
  /\ row = Null
  /\ ppc = "idle"
  /\ resolved = NoValue
  /\ parsed = NoValue
  /\ exported = NoValue
  /\ reparsed = NoValue
  /\ dbItems = << >>
  /\ nextItemId = 1
  /\ dbLogs = << >>
  /\ items = << >>
  /\ loading = FALSE
  /\ mounted = TRUE
  /\ tasks = << >>
  /\ qItems = << >>
  /\ qLogs = << >>
  /\ qInstances = << >>
  /\ faults = 0
  /\ dbInstances = << >>
  /\ nextInstanceId = 1
  /\ itemInstances = << >>
  /\ now = 0
  /\ logView = << >>

NextForms == OpenAddDialog \/ OpenEditForm \/ ChangeQuantity \/ SaveForm

SpecForms == InitForms /\ [][NextForms]_vars

(***************************************************************************)
(* The rows the parser is exercised on.  A row is built column by column   *)
(* from one family of sample columns and then parsed.                      *)
(***************************************************************************)
MaxCols == 3

QtyColumns ==
  {
    [h |-> <<"Q", "t", "y", " ", "A", "u", "t", "h", "o", "r", "i", "z", "e", "d">>, c |-> Str(<<"1", "0">>)],
    [h |-> <<"Q", "t", "y", " ", "A", "u", "t", "h", "o", "r", "i", "z", "e", "d">>, c |-> Str(<<"a", "b", "c">>)],
    [h |-> <<"Q", "t", "y", " ", "A", "u", "t", "h", "o", "r", "i", "z", "e", "d">>, c |-> Num(40)],
    [h |-> <<"Q", "T", "Y", " ", "A", "U", "T", "H">>, c |-> Str(<<"3">>)],
    [h |-> <<"q", "t", "y", " ", "o", "n", " ", "h", "a", "n", "d">>, c |-> Str(<<"7">>)],
    [h |-> <<"q", "t", "y", " ", "o", "n", " ", "h", "a", "n", "d">>, c |-> Str(<<" ", "7", ".", "5">>)],
    [h |-> <<"q", "t", "y", " ", "o", "n", " ", "h", "a", "n", "d">>, c |-> Str(<<"-", "2">>)],
    [h |-> <<"q", "t", "y", " ", "o", "n", " ", "h", "a", "n", "d">>, c |-> Str(<<"1", "2">>)],
    [h |-> <<"S", "h", "o", "r", "t", "a", "g", "e">>, c |-> Str(<<"5">>)],
    [h |-> <<"S", "h", "o", "r", "t", "a", "g", "e">>, c |-> Str(<<"0">>)],
    [h |-> <<"S", "h", "o", "r", "t", "a", "g", "e">>, c |-> Str(<<"-", "2">>)],
    [h |-> <<"S", "h", "o", "r", "t", "a", "g", "e">>, c |-> Str(<<"x">>)]
  }

FlagColumns ==
  {
    [h |-> <<"F", "l", "a", "g">>, c |-> Str(<<"Y">>)],
    [h |-> <<"F", "l", "a", "g">>, c |-> Str(<<" ", "Y", "e", "s", " ">>)],
    [h |-> <<"F", "l", "a", "g">>, c |-> Str(<<"n", "o">>)],
    [h |-> <<"F", "l", "a", "g">>, c |-> Str(<<"T", "R", "U", "E">>)],
    [h |-> <<"F", "l", "a", "g">>, c |-> Str(<<"1">>)],
    [h |-> <<"F", "l", "a", "g">>, c |-> Str(<<"f", "l", "a", "g", "g", "e", "d">>)],
    [h |-> <<"F", "l", "a", "g">>, c |-> Str(<<"M", "a", "r", "k">>)],
    [h |-> <<"F", "l", "a", "g">>, c |-> Str(<<"H", "I", "G", "H", "L", "I", "G", "H", "T">>)],
    [h |-> <<"F", "l", "a", "g">>, c |-> Str(<<"m", "a", "y", "b", "e">>)],
    [h |-> <<"F", "l", "a", "g">>, c |-> Str(<<>>)],
    [h |-> <<"F", "l", "a", "g">>, c |-> Bool(TRUE)],
    [h |-> <<"F", "l", "a", "g">>, c |-> Bool(FALSE)],
    [h |-> <<"F", "l", "a", "g">>, c |-> Num(10)],
    [h |-> <<"F", "l", "a", "g">>, c |-> Num(0)],
    [h |-> <<"F", "l", "a", "g">>, c |-> Num(20)],
    [h |-> <<"F", "L", "A", "G", "G", "E", "D">>, c |-> Str(<<"n", "o">>)],
    [h |-> <<"F", "L", "A", "G", "G", "E", "D">>, c |-> Bool(TRUE)],
    [h |-> <<"F", "l", "a", "g", "s">>, c |-> Str(<<"y", "e", "s">>)]
  }

TextColumns ==
  {
    [h |-> <<"N", "S", "N">>, c |-> Str(<<"1", "0", "0", "5">>)],
    [h |-> <<"N", "S", "N">>, c |-> Num(50)],
    [h |-> <<"n", "s", "n">>, c |-> Str(<<"x">>)],
    [h |-> <<"N", "s", "n", " ">>, c |-> Str(<<"z">>)],
    [h |-> <<"D", "e", "s", "c", "r", "i", "p", "t", "i", "o", "n">>, c |-> Str(<<"R", "a", "d", "i", "o">>)],
    [h |-> <<"N", "o", "m", "e", "n", "c", "l", "a", "t", "u", "r", "e">>, c |-> Str(<<" ", "R", "i", "f", "l", "e", " ">>)],
    [h |-> <<"N", "o", "m", "e", "n", "c", "l", "a", "t", "u", "r", "e">>, c |-> Bool(TRUE)],
    [h |-> <<"N", "o", "t", "e", "s">>, c |-> Str(<<"f", "r", "a", "g", "i", "l", "e">>)],
    [h |-> <<"N", "o", "t", "e", "s">>, c |-> Str(<<>>)],
    [h |-> <<"L", "I", "N">>, c |-> Str(<<"a", "1">>)],
    [h |-> <<"U", "I">>, c |-> Str(<<"E", "A">>)]
  }

Families == {"qty", "flag", "text", "other"}

Columns(fam) ==
  CASE fam = "qty"  -> QtyColumns
    [] fam = "flag" -> FlagColumns
    [] fam = "text" -> TextColumns
    [] OTHER        -> {}

\* rows that are not mappings: null, undefined and a primitive number
NonMappingRows == {Null, Undefined, Num(50)}

InitParseRow ==
  /\ family \in Families
  /\ row \in (IF family = "other" THEN NonMappingRows ELSE {MapRow(<<>>)})
  /\ ppc = "build"
  /\ resolved = NoValue
  /\ parsed = NoValue
  /\ exported = NoValue
  /\ reparsed = NoValue
  /\ form = [kind |-> "closed"]
  /\ saved = NoValue
  \* the application is in its state after construction and stays there
  /\ dbItems = << >>
  /\ nextItemId = 1
  /\ dbLogs = << >>
  /\ items = << >>
  /\ loading = FALSE
  /\ mounted = TRUE
  /\ tasks = << >>
  /\ qItems = << >>
  /\ qLogs = << >>
  /\ qInstances = << >>
  /\ faults = 0
  /\ dbInstances = << >>
  /\ nextInstanceId = 1
  /\ itemInstances = << >>
  /\ now = 0
  /\ logView = << >>

\* the row source adds one more column to the row object
AddColumn ==
  /\ ppc = "build"
  /\ row.t = "map"
  /\ Len(row.cols) < MaxCols
  /\ \E col \in Columns(family) :
       /\ \A i \in 1..Len(row.cols) : row.cols[i].h # col.h
       /\ row' = MapRow(Append(row.cols, col))
  /\ UNCHANGED <<family, ppc, resolved, parsed, exported, reparsed>>
  /\ UNCHANGED fvars
  /\ UNCHANGED avars

\* parseRow(row); the per-field resolutions are kept next to the result
ParseRowStep ==
  /\ ppc = "build"
  /\ ppc' = "parsed"
  /\ resolved' = IF row.t \in {"null", "undef"} THEN Throw
                 ELSE [f \in Fields |-> findFieldValue(row, FIELD_MAPPINGS[f])]
  /\ parsed' = parseRow(row)
  /\ UNCHANGED <<family, row, exported, reparsed>>
  /\ UNCHANGED fvars
  /\ UNCHANGED avars

\* plausible slip: a flagged record is marked with an X, others left empty
FlagCell_mark(item) ==
  IF Truthy(item.isFlagged) THEN Str(<<"X">>) ELSE Str(<<>>)

\* 'Flagged': item.isFlagged ? 'Yes' : 'No'
FlagCell(item) ==
  IF Truthy(item.isFlagged) THEN Str(<<"Y", "e", "s">>) ELSE Str(<<"N", "o">>)

\* the row object exportToSpreadsheet builds for a record without id: its
\* instances are [] and firstInstance is null, so the four instance cells
\* are ''
exportRow(item) ==
  MapRow(<<
    [h |-> <<"N", "o", "m", "e", "n", "c", "l", "a", "t", "u", "r", "e">>, c |-> item.name],
    [h |-> <<"L", "I", "N">>, c |-> item.lin],
    [h |-> <<"N", "S", "N">>, c |-> item.nsn],
    [h |-> <<"Q", "t", "y", " ", "A", "u", "t", "h", "o", "r", "i", "z", "e", "d">>, c |-> item.qtyAuthorized],
    [h |-> <<"Q", "t", "y", " ", "O", "n", " ", "H", "a", "n", "d">>, c |-> item.qtyOnHand],
    [h |-> <<"Q", "t", "y", " ", "S", "h", "o", "r", "t">>, c |-> item.qtyShort],
    [h |-> <<"U", "I">>, c |-> item.ui],
    [h |-> <<"N", "o", "t", "e", "s">>, c |-> Or(item.notes, Str(<<>>))],
    [h |-> <<"F", "l", "a", "g", "g", "e", "d">>, c |-> FlagCell(item)],
    [h |-> <<"S", "e", "r", "i", "a", "l", " ", "N", "u", "m", "b", "e", "r">>, c |-> Str(<<>>)],
    [h |-> <<"C", "o", "n", "d", "i", "t", "i", "o", "n", " ", "C", "o", "d", "e">>, c |-> Str(<<>>)],
    [h |-> <<"L", "o", "c", "a", "t", "i", "o", "n">>, c |-> Str(<<>>)],
    [h |-> <<"L", "a", "s", "t", " ", "V", "e", "r", "i", "f", "i", "e", "d">>, c |-> Str(<<>>)]
  >>)

\* exportToSpreadsheet's exportData entry for the parsed record
ExportStep ==
  /\ ppc = "parsed"
  /\ parsed # Throw
  /\ ppc' = "exported"
  /\ exported' = exportRow(parsed)
  /\ UNCHANGED <<family, row, resolved, parsed, reparsed>>
  /\ UNCHANGED fvars
  /\ UNCHANGED avars

\* parseRow of the export row
ReparseStep ==
  /\ ppc = "exported"
  /\ ppc' = "reparsed"
  /\ reparsed' = parseRow(exported)
  /\ UNCHANGED <<family, row, resolved, parsed, exported>>
  /\ UNCHANGED fvars
  /\ UNCHANGED avars

NextParse == AddColumn \/ ParseRowStep \/ ExportStep \/ ReparseStep

SpecParse == InitParseRow /\ [][NextParse]_vars

(***************************************************************************)
(* Properties of the row parser (checked under SpecParse)                  *)
(***************************************************************************)
ParsedMapping == ppc = "parsed" /\ row.t = "map"

\* the header of column k equals alias a ignoring letter case
HeaderIs(k, a) == toLowerCase(row.cols[k].h) = toLowerCase(a)

\* some header of the row is an alias of field f
Present(f) ==
  \E i \in 1..Len(FIELD_MAPPINGS[f]) :
    \E k \in 1..Len(row.cols) : HeaderIs(k, FIELD_MAPPINGS[f][i])

\* the resolved cell of field f holds a number n >= 0 (as text or as number)
NonNegativeNumeric(f) ==
  /\ Present(f)
  /\ parseFloat(resolved[f]).t = "num"
  /\ parseFloat(resolved[f]).v >= 0

Max0(n) == IF n > 0 THEN n ELSE 0

\* max(0, authorized - on hand) of the cells of the row
DerivedFromCells ==
  Num(Max0(parseFloat(resolved["qtyAuthorized"]).v - parseFloat(resolved["qtyOnHand"]).v))

\* the shortage cell parses to a non-zero number
ExplicitShortage ==
  /\ Present("qtyShort")
  /\ parseFloat(resolved["qtyShort"]).t = "num"
  /\ parseFloat(resolved["qtyShort"]).v # 0

DerivedFromRecord ==
  Num(Max0(parsed.qtyAuthorized.v - parsed.qtyOnHand.v))

Hits(f) ==
  {i \in 1..Len(FIELD_MAPPINGS[f]) :
     \E k \in 1..Len(row.cols) : HeaderIs(k, FIELD_MAPPINGS[f][i])}

Least(S) == CHOOSE x \in S : \A y \in S : x <= y

Greatest(S) == CHOOSE x \in S : \A y \in S : y <= x

\* the columns whose header equals the first matching alias of f
HitColumns(f) ==
  {k \in 1..Len(row.cols) : HeaderIs(k, FIELD_MAPPINGS[f][Least(Hits(f))])}

\* the row with its columns rearranged by the permutation p
Permuted(p) == MapRow([k \in 1..Len(row.cols) |-> row.cols[p[k]]])

\* C3 (as stated): the first alias in alias order that equals a header wins and
\* the result does not depend on the order of the row's own keys.
C3_KeyOrderIrrelevant ==
  ParsedMapping =>
    \A f \in Fields :
      /\ Hits(f) = {} => resolved[f] = Undefined
      /\ Hits(f) # {} => \E k \in HitColumns(f) : resolved[f] = row.cols[k].c
      /\ \A p \in Permutations(1..Len(row.cols)) :
           findFieldValue(Permuted(p), FIELD_MAPPINGS[f]) = resolved[f]

\* C3 (amended): the first alias in alias order that equals a header ignoring
\* case wins; of several headers equal to that alias ignoring case the last in
\* the row's key order supplies the cell; no alias matching means undefined.
C3_FirstAliasLastHeader ==
  ParsedMapping =>
    \A f \in Fields :
      IF Hits(f) = {} THEN resolved[f] = Undefined
      ELSE resolved[f] = row.cols[Greatest(HitColumns(f))].c

\* a lower-priority alias stands before the first alias in the row, and a
\* header differing from an alias only by case is present
C3_Witness ==
  /\ ParsedMapping
  /\ \E k1, k2 \in 1..Len(row.cols) :
       /\ k1 < k2
       /\ HeaderIs(k1, FIELD_MAPPINGS["name"][3])
       /\ HeaderIs(k2, FIELD_MAPPINGS["name"][1])
       /\ resolved["name"] = row.cols[k2].c
       /\ resolved["name"] # row.cols[k1].c
  /\ \E k \in 1..Len(row.cols) :
       /\ row.cols[k].h # FIELD_MAPPINGS["nsn"][1]
       /\ HeaderIs(k, FIELD_MAPPINGS["nsn"][1])
       /\ resolved["nsn"] = row.cols[k].c

\* the affirmative vocabulary, written out
IsAffirmative(s) ==
  \/ s = <<"y","e","s">>
  \/ s = <<"t","r","u","e">>
  \/ s = <<"y">>
  \/ s = <<"1">>
  \/ s = <<"f","l","a","g","g","e","d">>
  \/ s = <<"m","a","r","k">>
  \/ s = <<"h","i","g","h","l","i","g","h","t">>

\* C4: the flag is true exactly for boolean true, the number 1 and a string
\* that trimmed and lower-cased is in the affirmative vocabulary; it is false
\* for everything else, absent included, and the conversion never throws.
C4_FlagExactlyAffirmative ==
  (ppc = "parsed" /\ row.t \notin {"null", "undef"}) =>
    LET cell == resolved["isFlagged"]
        yes  == \/ cell = Bool(TRUE)
                \/ cell = Num(10)
                \/ (cell.t = "str" /\ IsAffirmative(toLowerCase(trim(cell.v))))
    IN  /\ parsed # Throw
        /\ parsed.isFlagged = Bool(yes)

\* a flag cell that is affirmative only after trimming and lower-casing
C4_Witness ==
  /\ ParsedMapping
  /\ resolved["isFlagged"].t = "str"
  /\ ~IsAffirmative(resolved["isFlagged"].v)
  /\ parsed.isFlagged = Bool(TRUE)

\* C5: the returned record has a photos list and a notes that is a string or
\* absent.
C5_PhotosListNotesString ==
  (ppc = "parsed" /\ parsed.t = "item") =>
    /\ parsed.photos.t = "list"
    /\ parsed.notes.t \in {"str", "undef"}

\* C6: a row that is a mapping always yields a record, whatever its cells; the
\* parser throws only for a row that is not a mapping.
C6_NeverFailsOnCells ==
  ppc = "parsed" =>
    /\ row.t = "map" => parsed.t = "item"
    /\ parsed = Throw => row.t # "map"

\* a mapping with an unparsable quantity cell was parsed into a record
C6_Witness ==
  /\ ParsedMapping
  /\ \E k \in 1..Len(row.cols) :
       /\ HeaderIs(k, FIELD_MAPPINGS["qtyAuthorized"][1])
       /\ parseFloat(row.cols[k].c) = NaN
  /\ parsed.t = "item"
  /\ parsed.qtyAuthorized = Num(0)

(***************************************************************************)
(* Import, change log                                                      *)
(***************************************************************************)
\* the tasks of one kind that have run to their end
Finished(kind) ==
  {i \in 1..Len(tasks) : tasks[i].kind = kind /\ tasks[i].pc = "done"}

\* the zero-based indexes of the rows of a sheet that are not mappings
MalformedRows(b) == {k - 1 : k \in {j \in 1..Len(b) : b[j].t # "map"}}

\* C7: an import whose store requests all succeed adds one record per
\* well-formed row of the sheet, skipping the malformed rows and continuing
\* with the rows after them (the accepted count is the number of rows that
\* are mappings and the store gains exactly that many records).
C7_MalformedRowsSkipped ==
  \A i \in Finished("upload") :
    tasks[i].failed # "store" =>
      tasks[i].added = Len(tasks[i].batch) - Cardinality(MalformedRows(tasks[i].batch))

\* the entries of the log a task appended
LoggedBy(i) == {dbLogs[tasks[i].logged[j]] : j \in 1..Len(tasks[i].logged)}

\* C8: once handleFileUpload has finished, if it added records to the item
\* store (and the log store took every entry offered to it) there is an IMPORT
\* entry of that upload whose importedCount is the number of records added.
C8_ImportCountIsApplied ==
  \A i \in Finished("upload") :
    (tasks[i].added > 0 /\ tasks[i].failed # "log") =>
      \E e \in LoggedBy(i) :
        /\ e.action = "IMPORT"
        /\ e.changes.importedCount = Num(10 * tasks[i].added)

\* C9: comparing a displayed record with itself gives an empty change set,
\* and no entry with an empty change set is ever in the log.
C9_NoEmptyChangeSetLogged ==
  /\ \A k \in 1..Len(items) :
       items[k].photos.t = "list" => DOMAIN itemChanges(items[k], items[k]) = {}
  /\ \A p \in 1..Len(dbLogs) : DOMAIN dbLogs[p].changes # {}

\* the updates that flag a record: the original has isFlagged false and the
\* updated record differs from it in isFlagged only
FlagUpdates ==
  {i \in 1..Len(tasks) :
     /\ tasks[i].kind = "update"
     /\ tasks[i].action = "FLAGGED"
     /\ tasks[i].orig # NoItem
     /\ tasks[i].orig.isFlagged = Bool(FALSE)
     /\ tasks[i].item = [tasks[i].orig EXCEPT !.isFlagged = Bool(TRUE)]}

FlagDelta == [f \in {"isFlagged"} |-> [from |-> Bool(FALSE), to |-> Bool(TRUE)]]

\* C10: for an update that flags a record, the change set has exactly one
\* delta, isFlagged from false to true; the update never appends more than one
\* entry, and once it has finished with its store and log requests served it
\* has appended exactly one entry, with action FLAGGED, that record's id and
\* that change set.
C10_FlagLogsOneDelta ==
  \A i \in FlagUpdates :
    /\ itemChanges(tasks[i].orig, tasks[i].item) = FlagDelta
    /\ Len(tasks[i].logged) <= 1
    /\ (tasks[i].pc = "done" /\ tasks[i].failed = "") =>
         /\ Len(tasks[i].logged) = 1
         /\ \E e \in LoggedBy(i) :
              LoggedBy(i) = {LogEntry(e.timestamp, "FLAGGED", tasks[i].item.id, FlagDelta)}

C10_Witness ==
  \E i \in FlagUpdates :
    /\ tasks[i].pc = "done"
    /\ tasks[i].failed = ""
    /\ Len(tasks[i].logged) = 1
    /\ dbLogs[tasks[i].logged[1]].action = "FLAGGED"


(***************************************************************************)
(* Delete                                                                  *)
(***************************************************************************)
\* the handleItemDelete calls whose store and log requests were all served
ServedDeletes ==
  {i \in Finished("delete") : tasks[i].failed = ""}

\* C11: a handleItemDelete call never appends more than one entry; once it
\* has finished with its requests served it has appended exactly one entry,
\* with action DELETE and the record's id, whose payload holds the deleted
\* record's name, lin and nsn, and the record is not in the item store.
C11_DeleteLogsOnce ==
  \A i \in 1..Len(tasks) :
    tasks[i].kind = "delete" =>
      /\ Len(tasks[i].logged) <= 1
      /\ i \in ServedDeletes =>
           /\ Len(tasks[i].logged) = 1
           /\ tasks[i].orig.id \notin DOMAIN dbItems
           /\ \A e \in LoggedBy(i) :
                /\ e.action = "DELETE"
                /\ e.itemId = tasks[i].orig.id
                /\ \A f \in {"name", "lin", "nsn"} :
                     e.changes.deletedItemFields[f] = tasks[i].orig[f]

C11_Witness ==
  \E i \in ServedDeletes :
    /\ Len(tasks[i].logged) = 1
    /\ dbLogs[tasks[i].logged[1]].action = "DELETE"
    /\ tasks[i].orig.name = Str(<<"A">>)
    /\ tasks[i].orig.id \notin DOMAIN dbItems


(***************************************************************************)
(* Log-write failures                                                      *)
(***************************************************************************)
\* task i is an item update or delete whose log write settles in this step
LogWriteSettles(i) ==
  /\ tasks[i].kind \in {"update", "delete"}
  /\ tasks[i].pc = "logsAdd"
  /\ tasks'[i].pc # "logsAdd"

\* C12: when the log write of an item update or delete settles, with success
\* or with a rejection, the handler runs to its end, the item store keeps
\* the mutation that was written, and the displayed item list gets it: the
\* updated record is in the list, the deleted record is not.
C12_LogFailureTolerated ==
  [][\A i \in 1..Len(tasks) :
       LogWriteSettles(i) =>
         /\ tasks'[i].pc = "done"
         /\ tasks'[i].wrote
         /\ dbItems' = dbItems
         /\ mounted =>
              IF tasks[i].kind = "update"
              THEN Find(items', tasks[i].item.id) = tasks[i].item
              ELSE Find(items', tasks[i].orig.id) = NoItem]_vars

C12_Witness ==
  \E i \in Finished("update") \cup Finished("delete") :
    /\ tasks[i].failed = "log"
    /\ tasks[i].wrote
    /\ tasks[i].logged = << >>
    /\ mounted
    /\ IF tasks[i].kind = "update"
       THEN /\ Find(items, tasks[i].item.id) = tasks[i].item
            /\ dbItems[tasks[i].item.id].notes = tasks[i].item.notes
            /\ tasks[i].item # tasks[i].orig
       ELSE /\ Find(items, tasks[i].orig.id) = NoItem
            /\ tasks[i].orig.id \notin DOMAIN dbItems


(***************************************************************************)
(* Reading the log                                                         *)
(***************************************************************************)
\* task i is a getLogs call whose read succeeds in this step
LogsRead(i) ==
  /\ tasks[i].pc = "getLogs"
  /\ tasks'[i].pc = "done"
  /\ tasks'[i].failed = ""

\* C13: what getLogs(limit) returns has at most limit entries, is ordered
\* newest-first by timestamp, and is the reverse of the last entries appended
\* to the log: entry k of the result is the k-th most recently written entry.
C13_NewestFirstUpToLimit ==
  [][\A i \in 1..Len(tasks) :
       LogsRead(i) =>
         LET n == Len(dbLogs)
             limit == tasks[i].limit
         IN  /\ Len(logView') = IF limit < n THEN limit ELSE n
             /\ \A a, b \in 1..Len(logView') :
                  a < b => logView'[a].timestamp >= logView'[b].timestamp
             /\ \A k \in 1..Len(logView') :
                  logView'[k] = StoredLog(n + 1 - k)]_vars

C13_Witness ==
  /\ Len(dbLogs) = 2
  /\ dbLogs[1].timestamp = dbLogs[2].timestamp
  /\ Len(logView) = 1
  /\ logView[1].id = 2


(***************************************************************************)
(* The log only grows                                                      *)
(***************************************************************************)
\* C14: the log is append-only.  No step of any handler, item delete and
\* instance delete included, removes or changes a stored entry: after every
\* step each entry that was in the log is still there, at its place, with
\* the same timestamp, action, itemId and changes.
C14_LogAppendOnly ==
  [][/\ Len(dbLogs') >= Len(dbLogs)
     /\ \A p \in 1..Len(dbLogs) :
          /\ dbLogs'[p].timestamp = dbLogs[p].timestamp
          /\ dbLogs'[p].action = dbLogs[p].action
          /\ dbLogs'[p].itemId = dbLogs[p].itemId
          /\ dbLogs'[p].changes = dbLogs[p].changes]_vars

\* the entries of an item and of its instance are in the log after the item
\* was deleted together with the instance
C14_Witness ==
  \E p, q, r \in 1..Len(dbLogs) :
    /\ dbLogs[p].action = "ITEM_ADD"
    /\ dbLogs[q].action = "INSTANCE_ADD"
    /\ dbLogs[r].action = "DELETE"
    /\ dbLogs[r].itemId = dbLogs[p].itemId
    /\ dbLogs[q].changes.parentItemId = dbLogs[p].itemId
    /\ dbLogs[p].itemId \notin DOMAIN dbItems
    /\ dbLogs[q].changes.instanceId \notin DOMAIN dbInstances

(***************************************************************************)
(* Order of the entries of one record                                      *)
(***************************************************************************)
\* the pairs of handleItemUpdate calls on one record, first call first
UpdatePairs ==
  {pr \in (1..Len(tasks)) \X (1..Len(tasks)) :
     /\ tasks[pr[1]].kind = "update" /\ tasks[pr[2]].kind = "update"
     /\ tasks[pr[1]].call > 0
     /\ tasks[pr[1]].call < tasks[pr[2]].call
     /\ tasks[pr[1]].item.id = tasks[pr[2]].item.id}

\* C15: for two handleItemUpdate calls m1 then m2 on one record, the entry
\* of m1 is appended before the entry of m2 in every interleaving of the
\* store and log-store completions: when m2's entry is in the log m1 has
\* run to its end, and when both logged, m1's entry comes first.
C15_LogOrderIsCallOrder ==
  \A pr \in UpdatePairs :
    LET m1 == tasks[pr[1]]
        m2 == tasks[pr[2]]
    IN  m2.logged # << >> =>
          /\ m1.pc = "done"
          /\ m1.logged # << >> => m1.logged[1] < m2.logged[1]

\* two logged updates of one record that were called from the same render,
\* the second before the first had changed the displayed list
C15_Witness ==
  \E pr \in UpdatePairs :
    LET m1 == tasks[pr[1]]
        m2 == tasks[pr[2]]
    IN  /\ m1.logged # << >> /\ m2.logged # << >>
        /\ m1.orig = m2.orig
        /\ m1.item # m1.orig
        /\ m1.closure = m2.closure

(***************************************************************************)
(* Entries after a record's DELETE entry                                   *)
(***************************************************************************)
\* C16: deleted is terminal in a record's log lineage: once a DELETE entry
\* for record id r is in the log, no entry appended after it has itemId r.
C16_NothingAfterDelete ==
  \A p, q \in 1..Len(dbLogs) :
    (p < q /\ dbLogs[p].action = "DELETE") => dbLogs[q].itemId # dbLogs[p].itemId

(***************************************************************************)
(* Fields written and fields compared                                      *)
(***************************************************************************)
\* the fields whose value handleItemUpdate call i changes in the store
ChangedFields(i) ==
  {f \in UpdatedFields : tasks[i].item[f] # tasks[i].orig[f]}

\* C17: logItemUpdate reports a delta for every field of the record that
\* differs between the old and the new snapshot, so a diffed item update
\* that was written and changes a field the store write covers appends one
\* entry whose change set names every changed field.
C17_EveryWrittenFieldCompared ==
  \A i \in Finished("update") :
    (/\ tasks[i].action \in DiffedActions
     /\ tasks[i].wrote
     /\ tasks[i].failed = ""
     /\ ChangedFields(i) # {}) =>
       /\ Len(tasks[i].logged) = 1
       /\ \A e \in LoggedBy(i) : ChangedFields(i) \subseteq DOMAIN e.changes

(***************************************************************************)
(* The actions found in the log                                            *)
(***************************************************************************)
\* database.ts: type LogAction
LogAction ==
  {"ITEM_ADD", "EDIT", "DELETE", "EXPORT", "IMPORT", "PHOTO_ADD", "PHOTO_DELETE",
   "FLAGGED", "UNFLAGGED", "VERIFIED", "NOTES", "INSTANCE_ADD", "INSTANCE_EDIT",
   "INSTANCE_DELETE"}

\* C18: every entry in the log store has an action that is a member of
\* LogAction, whatever action string the item component handed over.
C18_ActionsInClosedSet ==
  \A p \in 1..Len(dbLogs) : dbLogs[p].action \in LogAction

(***************************************************************************)
(* Flag entries of one record                                              *)
(***************************************************************************)
FlagActions == {"FLAGGED", "UNFLAGGED"}

\* C20: in the log lineage of one record FLAGGED and UNFLAGGED entries
\* alternate: between two entries with the same flag action and the same
\* itemId there is an entry with the other flag action and that itemId.
C20_FlagEntriesAlternate ==
  \A p, q \in 1..Len(dbLogs) :
    (/\ p < q
     /\ dbLogs[p].action \in FlagActions
     /\ dbLogs[q].action = dbLogs[p].action
     /\ dbLogs[q].itemId = dbLogs[p].itemId) =>
       \E r \in (p + 1)..(q - 1) :
         /\ dbLogs[r].action \in FlagActions \ {dbLogs[p].action}
         /\ dbLogs[r].itemId = dbLogs[p].itemId

(***************************************************************************)
(* Export and re-import of a parsed row (checked under SpecParse)          *)
(***************************************************************************)
RoundTripFields ==
  {"name", "lin", "nsn", "ui", "qtyAuthorized", "qtyOnHand", "qtyShort", "notes", "isFlagged"}

Returned == ppc = "parsed" /\ parsed # Throw

\* C21: the qtyShort of every record parseRow returns is non-negative, also
\* for a row whose explicit shortage cell parses to a negative number.
C21_ShortageNonNegative ==
  Returned => (parsed.qtyShort.t = "num" /\ parsed.qtyShort.v >= 0)

TextFields == {"name", "lin", "nsn", "ui"}

\* the text the claim expects for a resolved cell: '' when no alias of the
\* field is in the row, else the cell's text without surrounding white space
TrimmedText(cell) ==
  IF cell.t = "undef" THEN Str(<<>>) ELSE Str(trim(JSToString(cell)))

\* C22: name, lin, nsn and ui of every record parseRow returns are strings:
\* the trimmed text of the resolved cell, and the empty string when no alias
\* of the field is in the row, whatever the type of the cell.
C22_TextFieldsTrimmedStrings ==
  Returned =>
    \A f \in TextFields : parsed[f] = TrimmedText(resolved[f])

QtyFields == {"qtyAuthorized", "qtyOnHand"}

\* the number the text of a cell starts with, 0 when it starts with none
NumberOrZero(cell) ==
  IF parseFloat(cell).t = "num" THEN parseFloat(cell) ELSE Num(0)

\* C23: qtyAuthorized and qtyOnHand of a returned record equal the number
\* parsed from the resolved cell, decimals accepted and a negative kept as it
\* is, and equal 0 when no alias is in the row or the cell is not numeric.
C23_QuantitiesParsedOrZero ==
  Returned =>
    \A f \in QtyFields :
      /\ parsed[f] = NumberOrZero(resolved[f])
      /\ resolved[f] = Undefined => parsed[f] = Num(0)
      /\ resolved[f] = Str(<<" ", "7", ".", "5">>) => parsed[f] = Num(75)
      /\ resolved[f] = Str(<<"-", "2">>) => parsed[f] = Num(-20)
      /\ resolved[f] = Str(<<"a", "b", "c">>) => parsed[f] = Num(0)

\* a row with an unparsable authorized cell and a negative on-hand cell
C23_Witness ==
  /\ Returned
  /\ row.t = "map"
  /\ resolved["qtyAuthorized"] = Str(<<"a", "b", "c">>)
  /\ resolved["qtyOnHand"] = Str(<<"-", "2">>)
  /\ parsed.qtyAuthorized = Num(0)
  /\ parsed.qtyOnHand = Num(-20)

(***************************************************************************)
(* The photos delta                                                        *)
(***************************************************************************)
PhotoActions == {"PHOTO_ADD", "PHOTO_DELETE"}

\* the number of photos of a record, as a number value
PhotoCount(item) == Num(10 * Len(item.photos.v))

\* C24: a difference in the photos list is logged as one delta named photos
\* that holds the old and the new photo count, never the photos; for an
\* update made by the add-photo or delete-photo handler the counts differ
\* by exactly one.
C24_PhotosDeltaIsCounts ==
  \A i \in 1..Len(tasks) :
    (tasks[i].kind = "update" /\ tasks[i].action \in DiffedActions) =>
      \A e \in LoggedBy(i) :
        /\ "photos" \in DOMAIN e.changes <=>
             Len(tasks[i].orig.photos.v) # Len(tasks[i].item.photos.v)
        /\ "photos" \in DOMAIN e.changes =>
             e.changes.photos = [from |-> PhotoCount(tasks[i].orig),
                                 to   |-> PhotoCount(tasks[i].item)]
        /\ tasks[i].action = "PHOTO_ADD" =>
             /\ "photos" \in DOMAIN e.changes
             /\ e.changes.photos.to.v = e.changes.photos.from.v + 10
        /\ tasks[i].action = "PHOTO_DELETE" =>
             /\ "photos" \in DOMAIN e.changes
             /\ e.changes.photos.to.v = e.changes.photos.from.v - 10

\* a photo was added and then deleted, and the delete is logged as 1 -> 0
C24_Witness ==
  \E i \in Finished("update") :
    /\ tasks[i].action = "PHOTO_DELETE"
    /\ Len(tasks[i].logged) = 1
    /\ dbLogs[tasks[i].logged[1]].changes.photos = [from |-> Num(10), to |-> Num(0)]

(***************************************************************************)
(* The shortage of a saved form (checked under SpecForms)                  *)
(***************************************************************************)
\* max(0, qtyAuthorized - qtyOnHand) of a record
ShortageOf(rec) == Num(Max0(rec.qtyAuthorized.v - rec.qtyOnHand.v))

\* C25: the Add Item dialog and the edit form keep the shortage equation:
\* after any sequence of changes to the two quantity fields, the record that
\* is saved has qtyShort = max(0, qtyAuthorized - qtyOnHand), for a form
\* opened on a record that satisfied the equation.
C25_FormsKeepShortage ==
  /\ \A item \in EditableItems \cup {NewItemInitial} : item.qtyShort = ShortageOf(item)
  /\ saved # NoValue => saved.qtyShort = ShortageOf(saved)
  /\ form.kind \in {"add", "edit"} => form.rec.qtyShort = ShortageOf(form.rec)

\* the edit form of a record with 2 authorized and 1 on hand was saved with
\* the on-hand quantity raised to 3: the shortage went from 1 to 0
C25_Witness ==
  /\ saved # NoValue
  /\ saved.qtyAuthorized = Num(20)
  /\ saved.qtyOnHand = Num(30)
  /\ saved.qtyShort = Num(0)
  /\ saved.id = 1

(***************************************************************************)
(* Logged deltas and the store                                             *)
(***************************************************************************)
\* the value a delta of field f has for a record (a count for photos)
DeltaValue(rec, f) ==
  IF rec = NoItem THEN NoValue
  ELSE IF f = "photos" THEN Num(10 * Len(rec.photos.v)) ELSE rec[f]

\* C26: in every logged change set of an item update each field's from is
\* what the item store held for the field just before the update was written
\* and its to is what the store holds just after, in every interleaving of
\* overlapping handleItemUpdate calls on one record.
C26_DeltasMatchStore ==
  \A i \in 1..Len(tasks) :
    (tasks[i].kind = "update" /\ tasks[i].action \in DiffedActions) =>
      \A e \in LoggedBy(i) :
        \A f \in DOMAIN e.changes :
          /\ e.changes[f].from = DeltaValue(tasks[i].stored, f)
          /\ e.changes[f].to = DeltaValue(tasks[i].item, f)

(***************************************************************************)
(* The displayed list and the item store                                   *)
(***************************************************************************)
\* no handler is in flight and no request was rejected
Quiescent ==
  /\ tasks # << >>
  /\ \A i \in 1..Len(tasks) : tasks[i].pc = "done" /\ tasks[i].failed = ""

\* C27: once all add, update and delete handlers have completed without a
\* store error, the in-memory item list holds exactly the records of the
\* item store, with the same field values, in every interleaving; no
\* completed update is missing from the list.
C27_ListEqualsStore ==
  (Quiescent /\ mounted) =>
    {items[k] : k \in 1..Len(items)} = {dbItems[id] : id \in DOMAIN dbItems}


\* every handler that was started has run to its end, with or without a
\* rejected store call
AllSettled ==
  /\ tasks # << >>
  /\ \A i \in 1..Len(tasks) : tasks[i].pc = "done"

\* C28: once every started handler has completed, every instance in the
\* instance store has a parentItemId that is the key of a record in the item
\* store, also when handlers overlapped or a store call of handleItemDelete
\* was rejected.
C28_InstancesHaveParent ==
  AllSettled =>
    \A k \in DOMAIN dbInstances : dbInstances[k].parentItemId \in DOMAIN dbItems


\* the handlers that write one record of the item store, and where a task
\* stands while that write is awaited
ItemKinds == {"add", "update", "delete"}

ItemWritePcs == {"itemsAdd", "itemsUpdate", "itemsDelete"}

\* the step settles the item-store write of task i with a rejection
WriteRejected(i) ==
  /\ qItems # << >> /\ Head(qItems) = i
  /\ tasks[i].pc \in ItemWritePcs
  /\ qItems' = Tail(qItems)
  /\ faults' = faults + 1

\* the step appends the log entry of task i
LogAppended(i) ==
  /\ qLogs # << >> /\ Head(qLogs) = i
  /\ Len(dbLogs') = Len(dbLogs) + 1

\* C29: the log entry of an item add, update or delete is appended only by
\* a handler whose item-store write was fulfilled; the step in which the write
\* is rejected appends and requests no log entry, leaves the displayed list
\* and the item store as they are and ends the handler, which has logged
\* nothing.
C29_LogOnlyAfterWrite ==
  [][\A i \in 1..Len(tasks) :
       tasks[i].kind \in ItemKinds =>
         /\ LogAppended(i) => tasks[i].wrote
         /\ WriteRejected(i) =>
              /\ dbLogs' = dbLogs /\ qLogs' = qLogs
              /\ items' = items /\ dbItems' = dbItems
              /\ tasks'[i].pc = "done" /\ tasks'[i].logged = << >>
              /\ ~tasks'[i].wrote]_vars

\* an edit whose db.items.update was rejected has ended without a log entry
\* while an earlier add is in the log, and the list still shows the record as
\* it was before the edit
C29_Witness ==
  \E i \in 1..Len(tasks) :
    /\ tasks[i].kind = "update" /\ tasks[i].pc = "done"
    /\ tasks[i].failed = "store" /\ tasks[i].logged = << >>
    /\ Len(dbLogs) > 0
    /\ \A j \in 1..Len(dbLogs) : dbLogs[j].action = "ITEM_ADD"
    /\ Find(items, tasks[i].item.id) = tasks[i].orig
    /\ tasks[i].orig # tasks[i].item


\* the fields parseRow looks up in the row
RowFields ==
  {"isFlagged", "name", "lin", "nsn", "qtyAuthorized", "qtyOnHand", "qtyShort",
   "ui", "notes"}

\* column k is the one whose cell the lookup of field f returns
Feeds(k, f) == Hits(f) # {} /\ k = Greatest(HitColumns(f))

\* C30: no column of a row feeds two different fields of the record
\* parseRow returns: every cell is assigned to at most one field.
C30_OneCellOneField ==
  ParsedMapping =>
    \A k \in 1..Len(row.cols) : \A f, g \in RowFields :
      (Feeds(k, f) /\ Feeds(k, g)) => f = g

====
